---------------------------- MODULE Spec2Model ----------------------------
(***************************************************************************)
(* A model of the do-not-use-scanner web application (src/app.js and the  *)
(* earlier variants of the same script kept under src/unnamed).           *)
(*                                                                         *)
(* Units.  Distances between descriptors and the recognition threshold    *)
(* are counted in steps of 0.05 (so 0.10 is 2, 0.20 is 4, 0.25 is 5,      *)
(* 0.55 is 11, 0.60 is 12).  Detector scores, aspect ratios and fractions *)
(* are counted in hundredths (0.35 is 35, 0.75 is 75).  Descriptors are   *)
(* sequences of integers; the descriptor sets below hold one-coordinate   *)
(* vectors, for which the Euclidean distance is exactly |a[1] - b[1]|.    *)
(***************************************************************************)
EXTENDS Integers, Sequences, FiniteSets, TLC

VARIABLES
  people,          \* app.js:57    let people      [{id,name,samples}]
  scanSelection,   \* app.js:58    let scanSelection  { [personId]: boolean }
  modelsReady,     \* app.js:55    let modelsReady
  scanFiles,       \* app.js:29    scanInput.files
  threshold,       \* app.js:33    threshold.value
  scans,           \* app.js:548   the activations of the btnScan click handler
  resultsFlagged,  \* app.js:36    rows of the flagged bucket
  resultsPossible, \* app.js:37    rows of the possible bucket
  resultsClear,    \* app.js:38    rows of the clear bucket
  countFlagged,    \* app.js:40    countFlagged.textContent
  countPossible,   \* app.js:41    countPossible.textContent
  countClear,      \* app.js:42    countClear.textContent
  scanStatus,      \* app.js:31    scanStatus.textContent (its kind)
  results,         \* part_001:28 rows of the single results list of the first version
  preview,         \* app.js:44    previewCanvas: the image last drawn, and whether cleared
  enroll,          \* app.js:23-24 the tiles of the crops panel and enrollStatus
  btnScanDisabled, \* app.js:30    btnScan.disabled
  storage,         \* app.js:91-108  localStorage: dnu_people_v2, dnu_people_v1, dnu_selection_v2
  arg,             \* the input of the function under test (function specifications)
  res              \* its result

vars == <<people, scanSelection, modelsReady, scanFiles, threshold, scans,
          resultsFlagged, resultsPossible, resultsClear,
          countFlagged, countPossible, countClear, scanStatus, results,
          preview, enroll, btnScanDisabled, storage, arg, res>>

profileVars == <<people, scanSelection>>
bucketVars == <<resultsFlagged, resultsPossible, resultsClear,
                countFlagged, countPossible, countClear>>
appVars == <<people, scanSelection, modelsReady, scanFiles, threshold, scans,
             resultsFlagged, resultsPossible, resultsClear,
             countFlagged, countPossible, countClear, scanStatus, results,
             preview, enroll, btnScanDisabled, storage>>
harnessVars == <<arg, res>>

-----------------------------------------------------------------------------
(* Program constants *)

\* app.js:76   BORDERLINE_BAND = 0.10
BORDERLINE_BAND == 2
\* app.js:196  if (best < 0.20) break
EARLY_EXIT == 4
\* app.js:142  thr + BORDERLINE_BAND + 0.25
MARGIN == 5
\* app.js:192  let best = Infinity  (larger than every distance of the model)
Infinity == 1000000
\* app.js:134  a[i] - b[i] with b[i] undefined is NaN
NaN == 0 - 1

-----------------------------------------------------------------------------
(* Bounds of the model *)

\* coordinates of the query descriptors range over 0..MaxCoord
MaxCoord == 16
\* samples kept per person
MaxSamples == 2

-----------------------------------------------------------------------------
(* Arithmetic of the JavaScript numbers that occur *)

Min(a, b) == IF a <= b THEN a ELSE b
Max(a, b) == IF a >= b THEN a ELSE b

\* x < y of JavaScript: false when either side is NaN
Lt(x, y) == x # NaN /\ y # NaN /\ x < y
\* x <= y of JavaScript
Le(x, y) == x # NaN /\ y # NaN /\ x <= y
\* isFinite(x)
IsFinite(x) == x # NaN /\ x # Infinity

\* Math.sqrt on the sums of squares of the model (all perfect squares)
Sqrt(s) == CHOOSE r \in 0..s : r * r <= s /\ (r + 1) * (r + 1) > s

RECURSIVE SumSq(_, _, _)
SumSq(a, b, i) ==
  IF i > Len(a) THEN 0
  ELSE (a[i] - b[i]) * (a[i] - b[i]) + SumSq(a, b, i + 1)

\* app.js:131-138  dist(a, b): the loop runs over a.length; a coordinate
\* missing from b makes the sum, and so the result, NaN
dist(a, b) ==
  IF Len(b) < Len(a) THEN NaN ELSE Sqrt(SumSq(a, b, 1))

\* distanceToConfidence with the percentage cut off instead of rounded
distanceToConfidenceFloor(d, thr) ==
  LET max == thr + BORDERLINE_BAND + MARGIN
      num == IF d >= max THEN 0 ELSE 100 * (max - d)
  IN num \div max

\* app.js:141-145  distanceToConfidence(d, thr); Math.round rounds halves up
distanceToConfidence(d, thr) ==
  LET max == thr + BORDERLINE_BAND + MARGIN
      num == IF d >= max THEN 0 ELSE 100 * (max - d)   \* 100 * clamped * max
  IN (2 * num + max) \div (2 * max)

-----------------------------------------------------------------------------
(* Selection / profile adapter *)

\* selectedPeople with the test scanSelection[p.id] === true: a profile
\* without an entry is left out
selectedPeopleOnlyTrue(ppl, sel) ==
  LET keep(p) == p.id \in DOMAIN sel /\ sel[p.id] = TRUE
  IN SelectSeq(ppl, keep)

\* app.js:117-119  selectedPeople(): people.filter(p => scanSelection[p.id] !== false)
selectedPeople(ppl, sel) ==
  LET keep(p) == ~(p.id \in DOMAIN sel /\ sel[p.id] = FALSE)
  IN SelectSeq(ppl, keep)

\* the ids of a people list
IdsOf(ppl) == {ppl[k].id : k \in 1..Len(ppl)}

\* syncSelection without its second loop: ids that left the list keep
\* their entry
syncSelectionAddOnly(ppl, sel) ==
  [id \in IdsOf(ppl) \cup DOMAIN sel |-> IF id \in DOMAIN sel THEN sel[id] ELSE TRUE]

\* syncSelection giving true to every id of the list, the ones that have an
\* entry included
syncSelectionAllTrue(ppl, sel) == [id \in IdsOf(ppl) |-> TRUE]

\* app.js:120-129  syncSelection(): ids of the list that have no entry get
\* true, entries of ids that are not in the list are deleted
syncSelection(ppl, sel) ==
  [id \in IdsOf(ppl) |-> IF id \in DOMAIN sel THEN sel[id] ELSE TRUE]

-----------------------------------------------------------------------------
(* Matcher *)

\* app.js:192-197  the sample loop of one person, from sample k on, with the
\* running best; it stops at the first sample that brings best below 0.20
RECURSIVE sampleLoop(_, _, _, _)
sampleLoop(descriptor, samples, k, best) ==
  IF k > Len(samples) THEN best
  ELSE LET d == dist(descriptor, samples[k])
           b == IF Lt(d, best) THEN d ELSE best
       IN IF Lt(b, EARLY_EXIT) THEN b
          ELSE sampleLoop(descriptor, samples, k + 1, b)

\* the best distance of a person with the running best started at 0
\* instead of Infinity
bestOfPersonFromZero(descriptor, p) == sampleLoop(descriptor, p.samples, 1, 0)

\* app.js:192-197  best of one person
bestOfPerson(descriptor, p) == sampleLoop(descriptor, p.samples, 1, Infinity)

\* the entry pushed for person p at distance best
MatchEntry(p, best, thr, level) ==
  [personId |-> p.id, name |-> p.name, dist |-> best,
   confidence |-> distanceToConfidence(best, thr), level |-> level]

\* the test of line 200 written best < thr
IsHitStrict(best, thr) == Lt(best, thr)

\* the test of line 200 with the comparison turned round
IsHitReversed(best, thr) == Le(thr, best)

\* app.js:200  best <= thr
IsHit(best, thr) == Le(best, thr)
\* app.js:202  best <= thr + BORDERLINE_BAND (reached when best <= thr is false)
IsPossible(best, thr) == Le(best, thr + BORDERLINE_BAND)

\* the insertion of a sort that puts an item before the items of equal dist
RECURSIVE InsertBeforeEqual(_, _)
InsertBeforeEqual(sorted, item) ==
  IF sorted = <<>> THEN <<item>>
  ELSE IF sorted[Len(sorted)].dist < item.dist THEN Append(sorted, item)
  ELSE Append(InsertBeforeEqual(SubSeq(sorted, 1, Len(sorted) - 1), item),
              sorted[Len(sorted)])

\* Array.prototype.sort((a,b) => a.dist - b.dist): stable, ascending by dist
RECURSIVE InsertByDist(_, _)
InsertByDist(sorted, item) ==
  IF sorted = <<>> THEN <<item>>
  ELSE IF sorted[Len(sorted)].dist <= item.dist THEN Append(sorted, item)
  ELSE Append(InsertByDist(SubSeq(sorted, 1, Len(sorted) - 1), item),
              sorted[Len(sorted)])

RECURSIVE SortFrom(_, _, _)
SortFrom(list, k, sorted) ==
  IF k > Len(list) THEN sorted
  ELSE SortFrom(list, k + 1, InsertByDist(sorted, list[k]))

sortByDist(list) == SortFrom(list, 1, <<>>)

\* app.js:191-205  the loop over the pool, from person k on
RECURSIVE poolLoop(_, _, _, _, _, _)
poolLoop(pool, k, descriptor, thr, hits, possibles) ==
  IF k > Len(pool) THEN [hits |-> hits, possibles |-> possibles]
  ELSE LET p == pool[k]
           best == bestOfPerson(descriptor, p)
       IN IF ~IsFinite(best)
            THEN poolLoop(pool, k + 1, descriptor, thr, hits, possibles)
          ELSE IF IsHit(best, thr)
            THEN poolLoop(pool, k + 1, descriptor, thr,
                          Append(hits, MatchEntry(p, best, thr, "flagged")), possibles)
          ELSE IF IsPossible(best, thr)
            THEN poolLoop(pool, k + 1, descriptor, thr, hits,
                          Append(possibles, MatchEntry(p, best, thr, "possible")))
          ELSE poolLoop(pool, k + 1, descriptor, thr, hits, possibles)

\* app.js:186-211  matchesForDescriptor(descriptor, thr), reading the
\* globals people and scanSelection
matchesForDescriptor(ppl, sel, descriptor, thr) ==
  LET m == poolLoop(selectedPeople(ppl, sel), 1, descriptor, thr, <<>>, <<>>)
  IN [hits |-> sortByDist(m.hits), possibles |-> sortByDist(m.possibles)]

-----------------------------------------------------------------------------
(* Aggregator *)

\* the loop of dedupeByPerson keeping the first item of each personId
RECURSIVE dedupeLoopKeepFirst(_, _, _)
dedupeLoopKeepFirst(list, k, map) ==
  IF k > Len(list) THEN map
  ELSE IF \E j \in 1..Len(map) : map[j].personId = list[k].personId
    THEN dedupeLoopKeepFirst(list, k + 1, map)
  ELSE dedupeLoopKeepFirst(list, k + 1, Append(map, list[k]))

\* app.js:214-218  the loop of dedupeByPerson: a Map keyed by personId keeps
\* the position of a key's first insertion and the item of its last set
RECURSIVE dedupeLoop(_, _, _)
dedupeLoop(list, k, map) ==
  IF k > Len(list) THEN map
  ELSE LET item == list[k]
           at == {j \in 1..Len(map) : map[j].personId = item.personId}
       IN IF at = {} THEN dedupeLoop(list, k + 1, Append(map, item))
          ELSE LET j == CHOOSE x \in at : TRUE
               IN IF item.dist < map[j].dist
                    THEN dedupeLoop(list, k + 1, [map EXCEPT ![j] = item])
                  ELSE dedupeLoop(list, k + 1, map)

\* dedupeByPerson without the final sort
dedupeByPersonUnsorted(list) == dedupeLoop(list, 1, <<>>)

\* app.js:213-220  dedupeByPerson(list)
dedupeByPerson(list) == sortByDist(dedupeLoop(list, 1, <<>>))

\* app.js:72   MAX_FACES_PER_IMAGE = 30, scaled to the images of the model
MAX_FACES_PER_IMAGE == 2

\* app.js:590-595  the result of one face
faceResult(ppl, sel, det, thr) ==
  LET m == matchesForDescriptor(ppl, sel, det.descriptor, thr)
  IN [det |-> det, hits |-> m.hits, possibles |-> m.possibles,
      best |-> IF m.hits # <<>> THEN <<m.hits[1]>>
               ELSE IF m.possibles # <<>> THEN <<m.possibles[1]>>
               ELSE <<>>]

\* app.js:601-604  imageHits and imagePossibles, from face k on
RECURSIVE collectLoop(_, _, _, _)
collectLoop(faceResults, k, imageHits, imagePossibles) ==
  IF k > Len(faceResults)
    THEN [imageHits |-> imageHits, imagePossibles |-> imagePossibles]
  ELSE LET fr == faceResults[k]
       IN IF fr.hits # <<>>
            THEN collectLoop(faceResults, k + 1, imageHits \o fr.hits, imagePossibles)
          ELSE IF fr.possibles # <<>>
            THEN collectLoop(faceResults, k + 1, imageHits, imagePossibles \o fr.possibles)
          ELSE collectLoop(faceResults, k + 1, imageHits, imagePossibles)

\* the status with the two tests of lines 610-611 in the other order
imageStatusPossibleFirst(uniqHits, uniqPoss) ==
  IF uniqPoss # <<>> THEN "possible"
  ELSE IF uniqHits # <<>> THEN "flagged"
  ELSE "clear"

\* app.js:609-611  the status of the image
imageStatus(uniqHits, uniqPoss) ==
  IF uniqHits # <<>> THEN "flagged"
  ELSE IF uniqPoss # <<>> THEN "possible"
  ELSE "clear"

\* app.js:614  listForLabel.slice(0, 3)
LABEL_TOP == 3

\* app.js:613-616  the names shown in the label and the count of the rest
labelOf(listForLabel) ==
  [names |-> [k \in 1..Min(Len(listForLabel), LABEL_TOP) |->
                [name |-> listForLabel[k].name,
                 confidence |-> listForLabel[k].confidence]],
   more |-> Len(listForLabel) - LABEL_TOP]

\* app.js:587-616  one image of the scan loop, from the detector's output to
\* the status and the list of the label
scanImage(ppl, sel, detections, thr) ==
  LET trimmed == SubSeq(detections, 1, Min(Len(detections), MAX_FACES_PER_IMAGE))
      faceResults == [k \in 1..Len(trimmed) |-> faceResult(ppl, sel, trimmed[k], thr)]
      c == collectLoop(faceResults, 1, <<>>, <<>>)
      uniqHits == dedupeByPerson(c.imageHits)
      uniqPoss == dedupeByPerson(c.imagePossibles)
      status == imageStatus(uniqHits, uniqPoss)
  IN [trimmed |-> trimmed, faceResults |-> faceResults,
      imageHits |-> c.imageHits, imagePossibles |-> c.imagePossibles,
      uniqHits |-> uniqHits, uniqPoss |-> uniqPoss, status |-> status,
      listForLabel |-> IF status = "flagged" THEN uniqHits
                       ELSE IF status = "possible" THEN uniqPoss ELSE <<>>]

-----------------------------------------------------------------------------
(* The inputs of the model *)

\* the ids uid() hands out (app.js:79-81)
AllIds == {"a", "b", "c", "d"}
Ids == {"a", "b"}
ImageIds == {"a", "b", "c"}
\* the names typed into personName
NameOf ==
  [id \in AllIds |-> IF id = "a" THEN "Ann" ELSE IF id = "b" THEN "Bob"
                     ELSE IF id = "c" THEN "Cat" ELSE "Dan"]

\* the sequences over S of length at most n
SeqsUpTo(S, n) == UNION {[1..k -> S] : k \in 0..n}

\* descriptors of enrolled samples and of scanned faces
SampleDescriptors == {<<0>>, <<3>>}
QueryDescriptors == {<<x>> : x \in 0..MaxCoord}
\* the values of the threshold slider (0.10, 0.15, 0.20, 0.30, 0.55, 0.60)
Thresholds == {2, 3, 4, 6, 11, 12}

SampleLists == SeqsUpTo(SampleDescriptors, MaxSamples)
Persons == {[id |-> id, name |-> NameOf[id], samples |-> sl] :
              id \in Ids, sl \in SampleLists}
\* people lists without a repeated id
PeopleLists ==
  {pl \in SeqsUpTo(Persons, Cardinality(Ids)) :
     \A i, j \in 1..Len(pl) : i # j => pl[i].id # pl[j].id}
\* selection maps as loadSelection() may return them (app.js:106-113)
SelectionMaps == UNION {[D -> BOOLEAN] : D \in SUBSET Ids}

\* app.js:31  the status line before anything is written to it
NoStatus == [kind |-> "none"]

\* localStorage: each key is absent (the empty list) or holds one value
\* app.js:90-91, 103-104  what savePeople (with its syncSelection and
\* saveSelection) writes
savePeople(st, ppl, sel) ==
  [st EXCEPT !.people_v2 = <<ppl>>, !.selection_v2 = <<sel>>]
\* app.js:103-105  saveSelection
saveSelection(st, sel) == [st EXCEPT !.selection_v2 = <<sel>>]
\* app.js:95-102  loadPeople: dnu_people_v2, or else the legacy dnu_people_v1
loadPeople(st) ==
  IF st.people_v2 # <<>> THEN st.people_v2[1]
  ELSE IF st.people_v1 # <<>> THEN st.people_v1[1]
  ELSE <<>>
\* app.js:106-113  loadSelection
loadSelection(st) == IF st.selection_v2 # <<>> THEN st.selection_v2[1] ELSE <<>>
\* the storage as the last save of the current version left it
Persisted(ppl, sel) ==
  [people_v2 |-> <<ppl>>, people_v1 |-> <<>>, selection_v2 |-> <<sel>>]
\* part_001:58-59  the storage as savePeople of the first version left it
V1Persisted(ppl) ==
  [people_v2 |-> <<>>, people_v1 |-> <<ppl>>, selection_v2 |-> <<>>]

\* app.js:23-24  the crops panel and the enrolment status line at start.
\* A tile holds what its "Add sample" button closes over: the profile
\* object found by handleEnrollFiles (its id and name) and the descriptor;
\* detached says that this object is no longer an element of people.
NoEnroll == [crops |-> <<>>, status |-> [kind |-> "none"]]
\* the tiles after the profile objects with an id in ids have left people
detach(e, ids) ==
  [e EXCEPT !.crops = [t \in DOMAIN e.crops |->
     IF e.crops[t].person \in ids THEN [e.crops[t] EXCEPT !.detached = TRUE]
     ELSE e.crops[t]]]

\* app.js:44  the preview canvas before anything is drawn on it
NoPreview == [scan |-> 0, file |-> 0, blank |-> TRUE]
\* app.js:683-692  drawPreview(img, ...) with the image of file i of scan s
drawPreview(s, i) == [scan |-> s, file |-> i, blank |-> FALSE]
\* app.js:676-681  clearPreview(): the canvas is wiped
clearPreview(p) == [p EXCEPT !.blank = TRUE]

\* the state of the application that the function specifications leave alone
AppIdle ==
  /\ modelsReady = FALSE
  /\ scanFiles = <<>>
  /\ scans = <<>>
  /\ resultsFlagged = <<>> /\ resultsPossible = <<>> /\ resultsClear = <<>>
  /\ countFlagged = 0 /\ countPossible = 0 /\ countClear = 0
  /\ scanStatus = NoStatus
  /\ results = <<>>
  /\ preview = NoPreview
  /\ enroll = NoEnroll
  /\ btnScanDisabled = TRUE
  /\ storage = Persisted(people, scanSelection)

-----------------------------------------------------------------------------
(* SpecMatch: matchesForDescriptor on every people list, selection map,     *)
(* threshold and query descriptor of the model                              *)

InitMatch ==
  /\ people \in PeopleLists
  /\ scanSelection \in SelectionMaps
  /\ threshold \in Thresholds
  /\ arg \in [descriptor : QueryDescriptors]
  /\ res = [done |-> FALSE]
  /\ AppIdle

\* a call matchesForDescriptor(desc, thr) (app.js:592)
Match ==
  /\ ~res.done
  /\ res' = [done |-> TRUE,
             pool |-> selectedPeople(people, scanSelection),
             m |-> matchesForDescriptor(people, scanSelection, arg.descriptor, threshold)]
  /\ UNCHANGED <<appVars, arg>>

NextMatch == Match

SpecMatch == InitMatch /\ [][NextMatch]_vars

\* the claim's notion of an active identity: the selection flag of the
\* profile is not explicitly false
Active(p) == ~(p.id \in DOMAIN scanSelection /\ scanSelection[p.id] = FALSE)

\* the list holds an entry for the identity
InList(list, id) == \E k \in 1..Len(list) : list[k].personId = id

\* C1: after matchesForDescriptor, every active identity whose best sample
\* distance is d is in the hit list (FLAGGED) iff d <= thr, in the possible
\* list (POSSIBLE) iff thr < d <= thr + band, and in neither list iff
\* d > thr + band; the entry carries the distance d and its level.
C1_Tiers ==
  res.done =>
    \A k \in 1..Len(people) :
      LET p == people[k]
          d == bestOfPerson(arg.descriptor, p)
          flagged == InList(res.m.hits, p.id)
          possible == InList(res.m.possibles, p.id)
      IN Active(p) =>
           /\ flagged <=> d <= threshold
           /\ possible <=> (threshold < d /\ d <= threshold + BORDERLINE_BAND)
           /\ (~flagged /\ ~possible) <=> d > threshold + BORDERLINE_BAND
           /\ \A j \in 1..Len(res.m.hits) :
                res.m.hits[j].personId = p.id =>
                  res.m.hits[j].dist = d /\ res.m.hits[j].level = "flagged"
           /\ \A j \in 1..Len(res.m.possibles) :
                res.m.possibles[j].personId = p.id =>
                  res.m.possibles[j].dist = d /\ res.m.possibles[j].level = "possible"

\* the scenario of the specification: thr = 0.55, band = 0.10; one identity
\* at distance 0.50 is FLAGGED and one at distance 0.65, on the upper bound
\* of the band, is POSSIBLE
C1_Witness ==
  /\ res.done
  /\ threshold = 11
  /\ \E j \in 1..Len(res.m.hits) : res.m.hits[j].dist = 10
  /\ \E j \in 1..Len(res.m.possibles) : res.m.possibles[j].dist = 13

\* the k-th smallest member of a set of indices
NthOf(idx, n) == CHOOSE k \in idx : Cardinality({i \in idx : i <= k}) = n

\* C8: the pool selectedPeople returns is the people list restricted to the
\* profiles whose selection flag is not explicitly false, in the order of the
\* list; a profile without an entry in the selection map is in the pool.
C8_ActivePool ==
  res.done =>
    LET idx == {k \in 1..Len(people) : Active(people[k])}
    IN /\ Len(res.pool) = Cardinality(idx)
       /\ \A n \in 1..Len(res.pool) : res.pool[n] = people[NthOf(idx, n)]

\* a profile without an entry is in the pool, next to one that is deselected
\* and left out
C8_Witness ==
  /\ res.done
  /\ Len(people) = 2
  /\ people[1].id \in DOMAIN scanSelection /\ scanSelection[people[1].id] = FALSE
  /\ people[2].id \notin DOMAIN scanSelection
  /\ res.pool = <<people[2]>>

-----------------------------------------------------------------------------
(* SpecImage: one iteration of the scan loop (app.js:587-616) on every      *)
(* detector output of the model                                             *)

\* detections per image
MaxDetections == 3

\* the faces a detector may return: score, box size, descriptor
ImageDetections ==
  {[score |-> 90, width |-> 100, height |-> 100, descriptor |-> <<x>>] :
     x \in {6, 10, 14}}
\* people lists of three profiles with at most one sample each
ImagePeopleLists ==
  {<<[id |-> "a", name |-> NameOf["a"], samples |-> sl[1]],
     [id |-> "b", name |-> NameOf["b"], samples |-> sl[2]],
     [id |-> "c", name |-> NameOf["c"], samples |-> sl[3]]>> :
     sl \in [1..3 -> SeqsUpTo(SampleDescriptors, 1)]}

InitImage ==
  /\ people \in ImagePeopleLists
  /\ scanSelection \in [ImageIds -> BOOLEAN]
  /\ threshold \in {4, 12}
  /\ arg \in [detections : SeqsUpTo(ImageDetections, MaxDetections)]
  /\ res = [done |-> FALSE]
  /\ AppIdle

\* the body of the scan loop for one image (app.js:587-616)
ScanOne ==
  /\ ~res.done
  /\ res' = [done |-> TRUE,
             r |-> scanImage(people, scanSelection, arg.detections, threshold)]
  /\ UNCHANGED <<appVars, arg>>

NextImage == ScanOne

SpecImage == InitImage /\ [][NextImage]_vars

\* the faces of the image that are processed: the first MAX_FACES_PER_IMAGE
Processed(detections) ==
  SubSeq(detections, 1, Min(Len(detections), MAX_FACES_PER_IMAGE))

\* the face has a match at FLAGGED: an active identity within the threshold
FaceFlagged(det) ==
  \E k \in 1..Len(people) :
    /\ Active(people[k])
    /\ bestOfPerson(det.descriptor, people[k]) <= threshold

\* the face has a match at POSSIBLE: an active identity within the band
FacePossible(det) ==
  \E k \in 1..Len(people) :
    /\ Active(people[k])
    /\ bestOfPerson(det.descriptor, people[k]) > threshold
    /\ bestOfPerson(det.descriptor, people[k]) <= threshold + BORDERLINE_BAND

\* C2: the status of a scanned image is 'flagged' iff at least one processed
\* face has a match at FLAGGED, otherwise 'possible' iff at least one
\* processed face has a match at POSSIBLE, otherwise 'clear'.
C2_WorstTierWins ==
  res.done =>
    LET faces == Processed(arg.detections)
        anyFlagged == \E k \in 1..Len(faces) : FaceFlagged(faces[k])
        anyPossible == \E k \in 1..Len(faces) : FacePossible(faces[k])
    IN res.r.status = IF anyFlagged THEN "flagged"
                      ELSE IF anyPossible THEN "possible"
                      ELSE "clear"

\* an image with a face at POSSIBLE first and a face at FLAGGED second is
\* flagged
C2_Witness ==
  /\ res.done
  /\ Len(arg.detections) >= 2
  /\ FacePossible(arg.detections[1]) /\ ~FaceFlagged(arg.detections[1])
  /\ FaceFlagged(arg.detections[2])
  /\ res.r.status = "flagged"

\* the entries of the matches of all processed faces at a level
LevelEntries(faceResults, level) ==
  UNION {{IF level = "flagged" THEN faceResults[k].hits[j]
          ELSE faceResults[k].possibles[j] :
            j \in 1..Len(IF level = "flagged" THEN faceResults[k].hits
                         ELSE faceResults[k].possibles)} :
         k \in 1..Len(faceResults)}

\* list holds every identity of entries exactly once, with the lowest
\* distance the identity has in entries
DedupedFrom(list, entries) ==
  /\ \A i, j \in 1..Len(list) : i # j => list[i].personId # list[j].personId
  /\ \A i \in 1..Len(list) :
       /\ list[i] \in entries
       /\ \A e \in entries : e.personId = list[i].personId => list[i].dist <= e.dist
  /\ \A e \in entries : InList(list, e.personId)

\* the members of a sequence
Range(seq) == {seq[k] : k \in 1..Len(seq)}

\* C5: in the de-duplicated hit list and possible list of an image every
\* identity id appears at most once, and the entry kept for an identity is
\* the one with the lowest distance among its occurrences across the faces
\* of the image: the hit list against the hits of all processed faces, the
\* possible list against the possibles collected for the image, which are
\* those of all processed faces when the status is 'possible'.
C5_Dedup ==
  res.done =>
    /\ DedupedFrom(res.r.uniqHits, LevelEntries(res.r.faceResults, "flagged"))
    /\ DedupedFrom(res.r.uniqPoss, Range(res.r.imagePossibles))
    /\ res.r.status = "possible" =>
         DedupedFrom(res.r.listForLabel, LevelEntries(res.r.faceResults, "possible"))

\* the scenario of the specification: two faces match one identity at
\* distances 0.5 and 0.3, in this order, under threshold 0.6; the list holds
\* the identity once, at 0.3
C5_Witness ==
  /\ res.done
  /\ threshold = 12
  /\ Len(res.r.faceResults) = 2
  /\ \E id \in ImageIds :
       /\ \E j \in 1..Len(res.r.faceResults[1].hits) :
            /\ res.r.faceResults[1].hits[j].personId = id
            /\ res.r.faceResults[1].hits[j].dist = 10
       /\ \E j \in 1..Len(res.r.faceResults[2].hits) :
            /\ res.r.faceResults[2].hits[j].personId = id
            /\ res.r.faceResults[2].hits[j].dist = 6
       /\ \E j \in 1..Len(res.r.uniqHits) :
            /\ res.r.uniqHits[j].personId = id
            /\ res.r.uniqHits[j].dist = 6

-----------------------------------------------------------------------------
(* SpecDedupe: dedupeByPerson and the label (app.js:213-220, 613-616) on    *)
(* every list of match entries of the model                                 *)

\* entries in a list handed to dedupeByPerson
MaxItems == 4

\* the entries matchesForDescriptor pushes under threshold 0.20, for four
\* identities at distances 0.05, 0.10 and 0.15
DedupeItems ==
  {[personId |-> id, name |-> NameOf[id], dist |-> d,
    confidence |-> distanceToConfidence(d, 4), level |-> "flagged"] :
     id \in AllIds, d \in 1..3}

InitDedupe ==
  /\ people = <<>>
  /\ scanSelection = <<>>
  /\ threshold = 4
  /\ arg \in [list : SeqsUpTo(DedupeItems, MaxItems)]
  /\ res = [done |-> FALSE]
  /\ AppIdle

\* uniqHits = dedupeByPerson(imageHits) and the label made from it
\* (app.js:606, 613-616)
Dedupe ==
  /\ ~res.done
  /\ LET uniq == dedupeByPerson(arg.list)
     IN res' = [done |-> TRUE, uniq |-> uniq, label |-> labelOf(uniq)]
  /\ UNCHANGED <<appVars, arg>>

NextDedupe == Dedupe

SpecDedupe == InitDedupe /\ [][NextDedupe]_vars

\* the lowest distance of an identity in a list of entries
LowestDist(list, id) ==
  CHOOSE d \in {list[k].dist : k \in {j \in 1..Len(list) : list[j].personId = id}} :
    \A k \in 1..Len(list) : list[k].personId = id => d <= list[k].dist

\* C6: the de-duplicated list is in ascending order of distance, and the
\* entries shown in the label are the first three of it: no identity left
\* out of the label is closer than an identity shown.
C6_Ascending ==
  res.done =>
    /\ \A i, j \in 1..Len(res.uniq) : i < j => res.uniq[i].dist <= res.uniq[j].dist
    /\ Len(res.label.names) = Min(Cardinality({arg.list[k].personId : k \in 1..Len(arg.list)}), LABEL_TOP)
    /\ \A i \in 1..Len(res.label.names) :
         /\ res.label.names[i].name = res.uniq[i].name
         /\ \A id \in {arg.list[k].personId : k \in 1..Len(arg.list)} :
              (\A n \in 1..Len(res.label.names) : res.label.names[n].name # NameOf[id])
                => res.uniq[i].dist <= LowestDist(arg.list, id)

\* four identities, the closest collected last: it is shown first and the
\* farthest is the one left out of the label
C6_Witness ==
  /\ res.done
  /\ Len(arg.list) = 4
  /\ Len(res.uniq) = 4
  /\ arg.list[4].dist < arg.list[1].dist
  /\ arg.list[1].dist < arg.list[2].dist
  /\ res.uniq[1] = arg.list[4]
  /\ res.uniq[4] = arg.list[2]
  /\ res.label.more = 1

-----------------------------------------------------------------------------
(* Plausibility filter of the closest-match variant (src/unnamed/part_001)  *)

\* part_001:563  SCAN_MIN_SIDE = 900
SCAN_MIN_SIDE == 900
\* part_001:571  MIN_FACE_PX = 40
MIN_FACE_PX == 40
\* part_001:572  MIN_DET_SCORE = 0.35
MIN_DET_SCORE == 35
\* part_001:573  MIN_AR = 0.65
MIN_AR == 65
\* part_001:574  MAX_AR = 1.60
MAX_AR == 160
\* part_001:702  img.width * 0.75
MAX_SIDE_FRACTION == 75
\* a detection whose score is undefined
Undefined == 0 - 2

\* the quotients the code computes, as fractions n/d with d > 0
RECURSIVE Gcd(_, _)
Gcd(x, y) == IF y = 0 THEN x ELSE Gcd(y, x % y)
Frac(n, d) == LET g == Gcd(n, d) IN [n |-> n \div g, d |-> d \div g]
FracLt(x, y) == x.n * y.d < y.n * x.d
FracMin(x, y) == IF FracLt(y, x) THEN y ELSE x

\* part_001:661-663  the scale of imageToDetectionCanvas(img, targetMinSide)
detectionScale(img, targetMinSide) ==
  LET minSide == Min(img.width, img.height)
  IN IF minSide < targetMinSide THEN Frac(targetMinSide, minSide) ELSE Frac(1, 1)

\* isPlausibleFace with the score test written score <= MIN_DET_SCORE and
\* the other tests unchanged
isPlausibleFaceScoreOnBoundRejected(det, detScale, img) ==
  LET score == IF det.score = Undefined THEN 0 ELSE det.score
      w == Frac(det.width * detScale.d, detScale.n)
      h == Frac(det.height * detScale.d, detScale.n)
      minSide == FracMin(w, h)
      ar == Frac(w.n * h.d, w.d * h.n)
  IN IF score <= MIN_DET_SCORE THEN FALSE
     ELSE IF FracLt(minSide, Frac(MIN_FACE_PX, 1)) THEN FALSE
     ELSE IF FracLt(ar, Frac(MIN_AR, 100)) \/ FracLt(Frac(MAX_AR, 100), ar) THEN FALSE
     ELSE IF \/ FracLt(Frac(img.width * MAX_SIDE_FRACTION, 100), w)
             \/ FracLt(Frac(img.height * MAX_SIDE_FRACTION, 100), h) THEN FALSE
     ELSE TRUE

\* part_001:685-705  isPlausibleFace(det, detScale, img)
isPlausibleFace(det, detScale, img) ==
  LET score == IF det.score = Undefined THEN 0 ELSE det.score
      w == Frac(det.width * detScale.d, detScale.n)
      h == Frac(det.height * detScale.d, detScale.n)
      minSide == FracMin(w, h)
      ar == Frac(w.n * h.d, w.d * h.n)
  IN IF score < MIN_DET_SCORE THEN FALSE
     ELSE IF FracLt(minSide, Frac(MIN_FACE_PX, 1)) THEN FALSE
     ELSE IF FracLt(ar, Frac(MIN_AR, 100)) \/ FracLt(Frac(MAX_AR, 100), ar) THEN FALSE
     ELSE IF \/ FracLt(Frac(img.width * MAX_SIDE_FRACTION, 100), w)
             \/ FracLt(Frac(img.height * MAX_SIDE_FRACTION, 100), h) THEN FALSE
     ELSE TRUE

-----------------------------------------------------------------------------
(* SpecPlausible: isPlausibleFace on the detections and images of the model *)

\* sides of detection boxes, in pixels of the detection canvas
BoxSides == {39, 40, 64, 65, 100, 160, 161, 449, 450, 675, 676, 750, 751}
\* detector scores, in hundredths
BoxScores == {Undefined, 10, 34, 35, 90}
\* source images: one that is upscaled by 900/80 and two that are not
PlausibleImages ==
  {[width |-> 80, height |-> 100], [width |-> 1000, height |-> 2000],
   [width |-> 2000, height |-> 1000]}

InitPlausible ==
  /\ people = <<>>
  /\ scanSelection = <<>>
  /\ threshold = 11
  /\ arg \in [det : [score : BoxScores, width : BoxSides, height : BoxSides,
                     descriptor : {<<0>>}],
              img : PlausibleImages]
  /\ res = [done |-> FALSE]
  /\ AppIdle

\* part_001:1099, 1112  isPlausibleFace(det, scale, img) with the scale of
\* imageToDetectionCanvas(img, SCAN_MIN_SIDE)
Plausible ==
  /\ ~res.done
  /\ LET scale == detectionScale(arg.img, SCAN_MIN_SIDE)
     IN res' = [done |-> TRUE, scale |-> scale,
                plausible |-> isPlausibleFace(arg.det, scale, arg.img)]
  /\ UNCHANGED <<appVars, arg>>

NextPlausible == Plausible

SpecPlausible == InitPlausible /\ [][NextPlausible]_vars

\* C9: isPlausibleFace rejects an observation iff, with width and height
\* divided by the detection scale s = n/d (so width/s = width*d/n), the
\* score is below MIN_DET_SCORE, or min(width, height)/s is below
\* MIN_FACE_PX, or width/height is below MIN_AR or above MAX_AR, or width/s
\* exceeds 0.75 of the image width or height/s 0.75 of the image height.
\* The inequalities are strict: a value on a bound is accepted.
C9_Plausible ==
  res.done =>
    LET n == res.scale.n
        d == res.scale.d
        score == IF arg.det.score = Undefined THEN 0 ELSE arg.det.score
        width == arg.det.width
        height == arg.det.height
        lowScore == score < MIN_DET_SCORE
        small == (IF width <= height THEN width ELSE height) * d < MIN_FACE_PX * n
        badRatio == \/ 100 * width < MIN_AR * height
                    \/ 100 * width > MAX_AR * height
        huge == \/ 100 * width * d > MAX_SIDE_FRACTION * arg.img.width * n
                \/ 100 * height * d > MAX_SIDE_FRACTION * arg.img.height * n
    IN (res.plausible = FALSE) <=> (lowScore \/ small \/ badRatio \/ huge)

\* an upscaled image (scale 900/80): a detection with the score on
\* MIN_DET_SCORE, the smaller side on MIN_FACE_PX after division by the
\* scale and the width on 0.75 of the image width is accepted
C9_Witness ==
  /\ res.done
  /\ res.scale = Frac(SCAN_MIN_SIDE, 80)
  /\ arg.det.score = MIN_DET_SCORE
  /\ arg.det.height * 80 = MIN_FACE_PX * 900
  /\ arg.det.width * 80 * 100 = MAX_SIDE_FRACTION * arg.img.width * 900
  /\ res.plausible = TRUE

-----------------------------------------------------------------------------
(* The application of src/app.js: profiles, selection and the batch scan    *)

\* app.js:64   DETECTOR_SCAN.scoreThreshold = 0.08
DETECTOR_SCAN_SCORE == 8
\* app.js:584  the scoreThreshold of the fallback detection, 0.04
DETECTOR_FALLBACK_SCORE == 4
\* app.js:75   DEFAULT_THRESHOLD = 0.60
DEFAULT_THRESHOLD == 12

\* scans started per behaviour
MaxScans == 1
\* files chosen for one scan
MaxFiles == 2
\* samples "Add sample" gives one profile
MaxEnrolled == 1

\* app.js:178-183  detectAll(canvas, opts): the faces of the picture whose
\* score passes opts.scoreThreshold, in the detector's order
detectAll(faces, scoreThreshold) ==
  SelectSeq(faces, LAMBDA f : f.score > scoreThreshold)

\* app.js:580-585  detection with the more sensitive fallback
detectForScan(faces) ==
  LET detections == detectAll(faces, DETECTOR_SCAN_SCORE)
  IN IF detections = <<>> THEN detectAll(faces, DETECTOR_FALLBACK_SCORE)
     ELSE detections

\* app.js:555  pool.reduce((s, p) => s + (p.samples?.length || 0), 0)
RECURSIVE poolSamplesFrom(_, _)
poolSamplesFrom(pool, k) ==
  IF k > Len(pool) THEN 0 ELSE Len(pool[k].samples) + poolSamplesFrom(pool, k + 1)
poolSamples(pool) == poolSamplesFrom(pool, 1)

\* the pictures that can be chosen for a scan: a clear face two steps from
\* Ann's sample, a doubtful box (score 0.10) on Ann's sample, a clear face
\* on Bob's sample
ScanPictures ==
  {[name |-> "near.jpg",
    faces |-> <<[score |-> 90, width |-> 100, height |-> 100, descriptor |-> <<2>>]>>],
   [name |-> "doubt.jpg",
    faces |-> <<[score |-> 10, width |-> 100, height |-> 100, descriptor |-> <<0>>]>>],
   [name |-> "bob.jpg",
    faces |-> <<[score |-> 90, width |-> 100, height |-> 100, descriptor |-> <<30>>]>>]}
FileLists == SeqsUpTo(ScanPictures, MaxFiles)

\* the descriptor of the crop an enrolment photo of each person gives
CropOf == [id \in Ids |-> IF id = "a" THEN <<0>> ELSE <<30>>]
Enrolled(id) == [id |-> id, name |-> NameOf[id], samples |-> <<CropOf[id]>>]
Unenrolled(id) == [id |-> id, name |-> NameOf[id], samples |-> <<>>]
\* the people lists found in storage at start-up, and those of imported files
StoredPeople == {<<>>, <<Enrolled("a")>>, <<Enrolled("a"), Enrolled("b")>>}
ImportedPeople == {<<>>, <<Enrolled("b")>>, <<Enrolled("b"), Unenrolled("a")>>}

\* app.js:55-58, 788  the state after the script has run: people and
\* selection loaded, selection synchronised, models still loading
Init ==
  /\ people \in StoredPeople
  /\ \E loaded \in SelectionMaps : scanSelection = syncSelection(people, loaded)
  /\ modelsReady = FALSE
  /\ scanFiles = <<>>
  /\ threshold = DEFAULT_THRESHOLD
  /\ scans = <<>>
  /\ resultsFlagged = <<>> /\ resultsPossible = <<>> /\ resultsClear = <<>>
  /\ countFlagged = 0 /\ countPossible = 0 /\ countClear = 0
  /\ scanStatus = NoStatus
  /\ results = <<>>
  /\ preview = NoPreview
  /\ enroll = NoEnroll
  /\ btnScanDisabled = TRUE
  /\ storage = Persisted(people, scanSelection)
  /\ arg = [descriptor |-> <<>>]
  /\ res = [done |-> FALSE]

\* updateButtons with the test of the first version (part_001:107): the
\* whole people list instead of the active pool
updateButtonsAllPeople(ready, files, ppl, sel) ==
  ~ready \/ files = <<>> \/ ppl = <<>> \/ poolSamples(ppl) = 0

\* app.js:232-237  updateButtons(): the value given to btnScan.disabled
updateButtons(ready, files, ppl, sel) ==
  LET pool == selectedPeople(ppl, sel)
  IN ~ready \/ files = <<>> \/ pool = <<>> \/ poolSamples(pool) = 0

\* app.js:360-374  loadModels succeeds, then updateButtons
ModelsLoaded ==
  /\ ~modelsReady
  /\ modelsReady' = TRUE
  /\ btnScanDisabled' = updateButtons(TRUE, scanFiles, people, scanSelection)
  /\ UNCHANGED <<people, scanSelection, scanFiles, threshold, scans, bucketVars,
                 scanStatus, results, preview, enroll, storage, harnessVars>>

\* app.js:546  the user chooses the files of a scan to come, one of lists;
\* the change event runs updateButtons
ChooseFilesFrom(lists) ==
  /\ Len(scans) < MaxScans
  /\ \E files \in lists : scanFiles' = files
  /\ btnScanDisabled' = updateButtons(modelsReady, scanFiles', people, scanSelection)
  /\ UNCHANGED <<people, scanSelection, modelsReady, threshold, scans, bucketVars,
                 scanStatus, results, preview, enroll, storage, harnessVars>>

ChooseFiles == ChooseFilesFrom(FileLists)

\* app.js:548-568  a click on "Scan": the early returns, then clearBuckets
\* and the first line of the loop, up to the first await
ScanClickUpTo(maxScans) ==
  LET pool == selectedPeople(people, scanSelection)
  IN /\ IF ~modelsReady
          THEN /\ scanStatus' = [kind |-> "modelsNotReady"]
               /\ UNCHANGED <<scans, bucketVars>>
        ELSE IF scanFiles = <<>>
          THEN UNCHANGED <<scanStatus, scans, bucketVars>>
        ELSE IF pool = <<>> \/ poolSamples(pool) = 0
          THEN /\ scanStatus' = [kind |-> "noSelectedPeople"]
               /\ UNCHANGED <<scans, bucketVars>>
        ELSE /\ Len(scans) < maxScans
             /\ resultsFlagged' = <<>> /\ resultsPossible' = <<>> /\ resultsClear' = <<>>
             /\ countFlagged' = 0 /\ countPossible' = 0 /\ countClear' = 0
             /\ scans' = Append(scans,
                  [pc |-> "image", files |-> scanFiles, i |-> 1, thr |-> threshold,
                   pool |-> pool,
                   flaggedCount |-> 0, possibleCount |-> 0, clearCount |-> 0,
                   statuses |-> <<>>])
             /\ scanStatus' = [kind |-> "scanning", i |-> 1, n |-> Len(scanFiles)]
     /\ UNCHANGED <<people, scanSelection, modelsReady, scanFiles, threshold,
                    results, preview, btnScanDisabled, enroll, storage, harnessVars>>

ScanClick == ScanClickUpTo(MaxScans)

\* the test of lines 648-660 that draws every first row of a bucket,
\* whatever the other counters are
autoPreviewEveryFirst(status, flaggedCount, possibleCount, clearCount) ==
  \/ status = "flagged" /\ flaggedCount = 1
  \/ status = "possible" /\ possibleCount = 1
  \/ status = "clear" /\ clearCount = 1

\* app.js:648-660  whether the row just counted is drawn to the preview:
\* the first flagged; the first possible while nothing is flagged; the
\* first clear while nothing is flagged or possible
autoPreview(status, flaggedCount, possibleCount, clearCount) ==
  \/ status = "flagged" /\ flaggedCount = 1
  \/ status = "possible" /\ flaggedCount = 0 /\ possibleCount = 1
  \/ status = "clear" /\ flaggedCount = 0 /\ possibleCount = 0 /\ clearCount = 1

\* appendRow with the row put at the head of its bucket instead of the end
appendRowAtHead(s, sc, file, r) ==
  LET row == [scan |-> s, file |-> sc.i, name |-> file.name,
              faces |-> Len(r.trimmed), status |-> r.status,
              label |-> labelOf(r.listForLabel), faceResults |-> r.faceResults]
      flaggedCount == sc.flaggedCount + (IF r.status = "flagged" THEN 1 ELSE 0)
      possibleCount == sc.possibleCount + (IF r.status = "possible" THEN 1 ELSE 0)
      clearCount == sc.clearCount + (IF r.status = "clear" THEN 1 ELSE 0)
  IN /\ resultsFlagged' =
          IF r.status = "flagged" THEN <<row>> \o resultsFlagged ELSE resultsFlagged
     /\ resultsPossible' =
          IF r.status = "possible" THEN <<row>> \o resultsPossible ELSE resultsPossible
     /\ resultsClear' =
          IF r.status = "clear" THEN <<row>> \o resultsClear ELSE resultsClear
     /\ countFlagged' = flaggedCount
     /\ countPossible' = possibleCount
     /\ countClear' = clearCount
     /\ preview' = IF autoPreview(r.status, flaggedCount, possibleCount, clearCount)
                     THEN drawPreview(s, sc.i) ELSE preview
     /\ scans' = [scans EXCEPT ![s] =
          [sc EXCEPT !.pc = "yield", !.flaggedCount = flaggedCount,
                     !.possibleCount = possibleCount, !.clearCount = clearCount,
                     !.statuses = Append(@, r.status)]]

\* app.js:618-664  the row of file sc.i of scan s, with result r, goes to
\* the bucket of its status; the scan's counters, the three counts shown
\* and the auto-preview.  statuses is the history of the statuses of the
\* scan's files so far; no action reads it.
appendRow(s, sc, file, r) ==
  LET row == [scan |-> s, file |-> sc.i, name |-> file.name,
              faces |-> Len(r.trimmed), status |-> r.status,
              label |-> labelOf(r.listForLabel), faceResults |-> r.faceResults]
      flaggedCount == sc.flaggedCount + (IF r.status = "flagged" THEN 1 ELSE 0)
      possibleCount == sc.possibleCount + (IF r.status = "possible" THEN 1 ELSE 0)
      clearCount == sc.clearCount + (IF r.status = "clear" THEN 1 ELSE 0)
  IN /\ resultsFlagged' =
          IF r.status = "flagged" THEN Append(resultsFlagged, row) ELSE resultsFlagged
     /\ resultsPossible' =
          IF r.status = "possible" THEN Append(resultsPossible, row) ELSE resultsPossible
     /\ resultsClear' =
          IF r.status = "clear" THEN Append(resultsClear, row) ELSE resultsClear
     /\ countFlagged' = flaggedCount
     /\ countPossible' = possibleCount
     /\ countClear' = clearCount
     /\ preview' = IF autoPreview(r.status, flaggedCount, possibleCount, clearCount)
                     THEN drawPreview(s, sc.i) ELSE preview
     /\ scans' = [scans EXCEPT ![s] =
          [sc EXCEPT !.pc = "yield", !.flaggedCount = flaggedCount,
                     !.possibleCount = possibleCount, !.clearCount = clearCount,
                     !.statuses = Append(@, r.status)]]

\* app.js:574-664  scan s gets the detections of its current file and, in
\* one turn of the event loop, matches them against the people and the
\* selection of that moment, adds the row and the counters
ScanProcess(s) ==
  /\ scans[s].pc = "image"
  /\ appendRow(s, scans[s], scans[s].files[scans[s].i],
               scanImage(people, scanSelection,
                         detectForScan(scans[s].files[scans[s].i].faces),
                         scans[s].thr))
  /\ UNCHANGED <<people, scanSelection, modelsReady, scanFiles, threshold,
                 scanStatus, results, btnScanDisabled, enroll, storage, harnessVars>>

\* app.js:666, 570-572, 669-672  scan s comes back from yieldToUI: the next
\* file, or the final status
ScanResume(s) ==
  LET sc == scans[s]
  IN /\ sc.pc = "yield"
     /\ IF sc.i < Len(sc.files)
          THEN /\ scans' = [scans EXCEPT ![s] = [sc EXCEPT !.pc = "image", !.i = sc.i + 1]]
               /\ scanStatus' = [kind |-> "scanning", i |-> sc.i + 1, n |-> Len(sc.files)]
          ELSE /\ scans' = [scans EXCEPT ![s] = [sc EXCEPT !.pc = "done"]]
               /\ scanStatus' = [kind |-> "done", flagged |-> sc.flaggedCount,
                                 possible |-> sc.possibleCount, clear |-> sc.clearCount,
                                 thr |-> sc.thr]
     /\ UNCHANGED <<people, scanSelection, modelsReady, scanFiles, threshold,
                    bucketVars, results, preview, btnScanDisabled, enroll, storage, harnessVars>>

\* what the handlers of the profile controls leave alone
scanVars == <<modelsReady, scanFiles, threshold, scans, results, preview,
              harnessVars>>
\* what the handlers that take no profile object out of people leave alone
keptVars == <<scanVars, enroll>>

\* app.js:386-392  "Add person": a profile with a fresh id and no samples,
\* then savePeople (syncSelection)
AddPerson ==
  /\ \E id \in Ids \ IdsOf(people) :
       LET ppl == Append(people, Unenrolled(id))
       IN /\ people' = ppl
          /\ scanSelection' = syncSelection(ppl, scanSelection)
  /\ storage' = savePeople(storage, people', scanSelection')
  /\ btnScanDisabled' = updateButtons(modelsReady, scanFiles, people', scanSelection')
  /\ UNCHANGED <<keptVars, bucketVars, scanStatus>>

\* app.js:275-278  "Delete" on the card of person id, then savePeople
DeletePerson ==
  /\ \E id \in IdsOf(people) :
       LET ppl == SelectSeq(people, LAMBDA x : x.id # id)
       IN /\ people' = ppl
          /\ scanSelection' = syncSelection(ppl, scanSelection)
          /\ enroll' = detach(enroll, {id})
  /\ storage' = savePeople(storage, people', scanSelection')
  /\ btnScanDisabled' = updateButtons(modelsReady, scanFiles, people', scanSelection')
  /\ UNCHANGED <<scanVars, bucketVars, scanStatus>>

\* app.js:298-302  "Clear Samples" on the card of person id, then savePeople
ClearSamples ==
  /\ \E k \in 1..Len(people) :
       LET ppl == [people EXCEPT ![k].samples = <<>>]
       IN /\ people' = ppl
          /\ scanSelection' = syncSelection(ppl, scanSelection)
  /\ storage' = savePeople(storage, people', scanSelection')
  /\ btnScanDisabled' = updateButtons(modelsReady, scanFiles, people', scanSelection')
  /\ UNCHANGED <<keptVars, bucketVars, scanStatus>>

\* app.js:518-525  "Add sample" on a crop of an enrolment photo of a person
\* of the list, then savePeople
AddSample ==
  /\ \E k \in 1..Len(people) :
       /\ Len(people[k].samples) < MaxEnrolled
       /\ LET ppl == [people EXCEPT
                        ![k].samples = Append(@, CropOf[people[k].id])]
          IN /\ people' = ppl
             /\ scanSelection' = syncSelection(ppl, scanSelection)
  /\ storage' = savePeople(storage, people', scanSelection')
  /\ btnScanDisabled' = updateButtons(modelsReady, scanFiles, people', scanSelection')
  /\ UNCHANGED <<keptVars, bucketVars, scanStatus>>

\* app.js:331-335  the checkbox of person id changes
ToggleSelection ==
  /\ \E k \in 1..Len(people) :
       LET id == people[k].id
           checked == ~(id \in DOMAIN scanSelection /\ scanSelection[id] = FALSE)
       IN scanSelection' =
            [x \in DOMAIN scanSelection \cup {id} |->
               IF x = id THEN ~checked ELSE scanSelection[x]]
  /\ storage' = saveSelection(storage, scanSelection')
  /\ btnScanDisabled' = updateButtons(modelsReady, scanFiles, people, scanSelection')
  /\ UNCHANGED <<people, keptVars, bucketVars, scanStatus>>

\* app.js:407-418  "All" (b = TRUE) and "None" (b = FALSE)
SelectAllOrNone ==
  /\ \E b \in BOOLEAN :
       scanSelection' =
         [x \in DOMAIN scanSelection \cup IdsOf(people) |->
            IF x \in IdsOf(people) THEN b ELSE scanSelection[x]]
  /\ storage' = saveSelection(storage, scanSelection')
  /\ btnScanDisabled' = updateButtons(modelsReady, scanFiles, people, scanSelection')
  /\ UNCHANGED <<people, keptVars, bucketVars, scanStatus>>

\* app.js:755-773  import of a well-formed file: people replaced,
\* syncSelection, savePeople, both status lines
ImportPeopleFrom(files) ==
  /\ \E ppl \in files :
       /\ people' = ppl
       /\ scanSelection' = syncSelection(ppl, syncSelection(ppl, scanSelection))
  /\ scanStatus' = [kind |-> "imported"]
  /\ enroll' = [detach(enroll, AllIds) EXCEPT !.status = [kind |-> "imported"]]
  /\ storage' = savePeople(storage, people', scanSelection')
  /\ btnScanDisabled' = updateButtons(modelsReady, scanFiles, people', scanSelection')
  /\ UNCHANGED <<scanVars, bucketVars>>

ImportPeople == ImportPeopleFrom(ImportedPeople)

\* app.js:394-405  "Clear all": people and selection emptied, buckets and
\* preview cleared
ClearAll ==
  /\ people' = <<>>
  /\ scanSelection' = <<>>
  /\ scanStatus' = [kind |-> "cleared"]
  /\ resultsFlagged' = <<>> /\ resultsPossible' = <<>> /\ resultsClear' = <<>>
  /\ countFlagged' = 0 /\ countPossible' = 0 /\ countClear' = 0
  /\ preview' = clearPreview(preview)
  /\ enroll' = [crops |-> <<>>, status |-> [kind |-> "cleared"]]
  /\ storage' = [storage EXCEPT !.people_v2 = <<>>, !.selection_v2 = <<>>]
  /\ btnScanDisabled' = updateButtons(modelsReady, scanFiles, <<>>, <<>>)
  /\ UNCHANGED <<modelsReady, scanFiles, threshold, scans, results, harnessVars>>

Next ==
  \/ ModelsLoaded
  \/ ChooseFiles
  \/ ScanClick
  \/ \E s \in 1..Len(scans) : ScanProcess(s)
  \/ \E s \in 1..Len(scans) : ScanResume(s)
  \/ AddPerson
  \/ DeletePerson
  \/ ClearSamples
  \/ AddSample
  \/ ToggleSelection
  \/ SelectAllOrNone
  \/ ImportPeople
  \/ ClearAll

Spec == Init /\ [][Next]_vars

\* the rows of the three buckets
BucketRows == Range(resultsFlagged) \cup Range(resultsPossible) \cup Range(resultsClear)
\* the detections behind a row
DetectionsOf(row) == [k \in 1..Len(row.faceResults) |-> row.faceResults[k].det]

\* C3: every row of a batch shows the status and the matched identities
\* that its image has against the active pool as it was when its scan
\* started (the value of pool at app.js:554), whatever was done to the
\* profiles or the selection while the scan was running.
C3_SnapshotAtStart ==
  \A row \in BucketRows :
    LET sc == scans[row.scan]
        expected == scanImage(sc.pool, <<>>, DetectionsOf(row), sc.thr)
    IN /\ row.status = expected.status
       /\ row.label = labelOf(expected.listForLabel)

\* C10: no face whose detector score is below MIN_DET_SCORE is among the
\* faces of a row that were given to the matcher, so none contributes to
\* the row's status or label.
C10_LowScoreNeverMatched ==
  \A row \in BucketRows :
    \A k \in 1..Len(row.faceResults) :
      row.faceResults[k].det.score >= MIN_DET_SCORE

-----------------------------------------------------------------------------
(* SpecV1: the first version of the script (src/unnamed/part_001, lines     *)
(* 1-493), which has no selection map: every profile takes part in a scan   *)

\* part_001:353  scoreThreshold: 0.5
V1_SCORE_THRESHOLD == 50

\* part_001:352-355  the detections of a picture
v1Detect(faces) == SelectSeq(faces, LAMBDA f : f.score > V1_SCORE_THRESHOLD)

\* part_001:94-100  the loops over people and samples, from sample k of
\* person j on
RECURSIVE bestMatchLoop(_, _, _, _, _, _)
bestMatchLoop(ppl, j, k, descriptor, thr, best) ==
  IF j > Len(ppl) THEN best
  ELSE IF k > Len(ppl[j].samples)
    THEN bestMatchLoop(ppl, j + 1, 1, descriptor, thr, best)
  ELSE LET d == dist(descriptor, ppl[j].samples[k])
       IN bestMatchLoop(ppl, j, k + 1, descriptor, thr,
            IF Lt(d, best.dist)
              THEN [hit |-> Le(d, thr), personName |-> ppl[j].name,
                    personId |-> ppl[j].id, dist |-> d]
              ELSE best)

\* part_001:91-103  bestMatchToPeople(descriptor, thr)
bestMatchToPeople(ppl, descriptor, thr) ==
  bestMatchLoop(ppl, 1, 1, descriptor, thr,
    [hit |-> FALSE, personName |-> "", personId |-> "", dist |-> Infinity])

\* part_001:357-363  the matches of the detections and whether one is a hit
v1ScanImage(ppl, detections, thr) ==
  LET matches == [k \in 1..Len(detections) |->
                    bestMatchToPeople(ppl, detections[k].descriptor, thr)]
  IN [detections |-> detections, matches |-> matches,
      isFlagged |-> \E k \in 1..Len(matches) : matches[k].hit]

\* the people lists found in storage at start-up
V1StoredPeople == {<<>>, <<Unenrolled("a")>>, <<Enrolled("a")>>}

\* part_001:44-47  the state after the script has run
InitV1 ==
  /\ people \in V1StoredPeople
  /\ scanSelection = <<>>
  /\ modelsReady = FALSE
  /\ scanFiles = <<>>
  /\ threshold \in {11, 12}
  /\ scans = <<>>
  /\ resultsFlagged = <<>> /\ resultsPossible = <<>> /\ resultsClear = <<>>
  /\ countFlagged = 0 /\ countPossible = 0 /\ countClear = 0
  /\ scanStatus = NoStatus
  /\ results = <<>>
  /\ preview = NoPreview
  /\ enroll = NoEnroll
  /\ btnScanDisabled = TRUE
  /\ storage = V1Persisted(people)
  /\ arg = [descriptor |-> <<>>]
  /\ res = [done |-> FALSE]

\* part_001:194-207  loadModels succeeds
V1ModelsLoaded ==
  /\ ~modelsReady
  /\ modelsReady' = TRUE
  /\ btnScanDisabled' = updateButtonsAllPeople(TRUE, scanFiles, people, scanSelection)
  /\ UNCHANGED <<people, scanSelection, scanFiles, threshold, scans, bucketVars,
                 scanStatus, results, preview, enroll, storage, harnessVars>>

\* part_001:336  the user chooses the files of a scan to come
V1ChooseFiles ==
  /\ Len(scans) < MaxScans
  /\ \E files \in FileLists : scanFiles' = files
  /\ btnScanDisabled' =
       updateButtonsAllPeople(modelsReady, scanFiles', people, scanSelection)
  /\ UNCHANGED <<people, scanSelection, modelsReady, threshold, scans, bucketVars,
                 scanStatus, results, preview, enroll, storage, harnessVars>>

\* part_001:338-349  a click on "Scan", up to the first await.  The field
\* pool records the profiles that take part (all of them) at that moment.
V1ScanClick ==
  /\ IF ~modelsReady
       THEN /\ scanStatus' = [kind |-> "modelsNotReady"]
            /\ UNCHANGED <<scans, results>>
     ELSE IF scanFiles = <<>>
       THEN UNCHANGED <<scanStatus, scans, results>>
     ELSE /\ Len(scans) < MaxScans
          /\ results' = <<>>
          /\ scanStatus' = [kind |-> "scanning"]
          /\ scans' = Append(scans,
               [pc |-> "image", files |-> scanFiles, i |-> 1, thr |-> threshold,
                pool |-> people, flagged |-> 0])
  /\ UNCHANGED <<people, scanSelection, modelsReady, scanFiles, threshold,
                 bucketVars, preview, btnScanDisabled, enroll, storage, harnessVars>>

\* part_001:362-402  the row of file sc.i of scan s, with result r; after
\* the last file, the final status
v1AppendRow(s, sc, file, r) ==
  LET flagged == sc.flagged + (IF r.isFlagged THEN 1 ELSE 0)
  IN /\ results' = Append(results,
          [scan |-> s, file |-> sc.i, name |-> file.name,
           faces |-> Len(r.detections),
           status |-> IF r.isFlagged THEN "flagged" ELSE "clear"])
     /\ preview' = IF r.isFlagged /\ flagged = 1 THEN drawPreview(s, sc.i)
                   ELSE preview
     /\ IF sc.i < Len(sc.files)
          THEN /\ scans' = [scans EXCEPT ![s] =
                    [sc EXCEPT !.i = sc.i + 1, !.flagged = flagged]]
               /\ UNCHANGED scanStatus
          ELSE /\ scans' = [scans EXCEPT ![s] =
                    [sc EXCEPT !.pc = "done", !.flagged = flagged]]
               /\ scanStatus' = [kind |-> "done", flagged |-> flagged,
                                 n |-> Len(sc.files), thr |-> sc.thr]

\* part_001:349-402  scan s gets the detections of its current file and
\* matches them against the people of that moment
V1ScanProcess(s) ==
  /\ scans[s].pc = "image"
  /\ v1AppendRow(s, scans[s], scans[s].files[scans[s].i],
                 v1ScanImage(people, v1Detect(scans[s].files[scans[s].i].faces),
                             scans[s].thr))
  /\ UNCHANGED <<people, scanSelection, modelsReady, scanFiles, threshold,
                 bucketVars, btnScanDisabled, enroll, storage, harnessVars>>

\* part_001:216-222  "Add person"
V1AddPerson ==
  /\ \E id \in Ids \ IdsOf(people) : people' = Append(people, Unenrolled(id))
  /\ storage' = [storage EXCEPT !.people_v1 = <<people'>>]
  /\ btnScanDisabled' =
       updateButtonsAllPeople(modelsReady, scanFiles, people', scanSelection)
  /\ UNCHANGED <<scanSelection, keptVars, bucketVars, scanStatus>>

\* part_001:150-153  "Delete" on the card of a person
V1DeletePerson ==
  /\ \E id \in IdsOf(people) : people' = SelectSeq(people, LAMBDA x : x.id # id)
  /\ storage' = [storage EXCEPT !.people_v1 = <<people'>>]
  /\ btnScanDisabled' =
       updateButtonsAllPeople(modelsReady, scanFiles, people', scanSelection)
  /\ UNCHANGED <<scanSelection, keptVars, bucketVars, scanStatus>>

\* part_001:313-320  "Add sample" on a crop of a person of the list
V1AddSample ==
  /\ \E k \in 1..Len(people) :
       /\ Len(people[k].samples) < MaxEnrolled
       /\ people' = [people EXCEPT ![k].samples = Append(@, CropOf[people[k].id])]
  /\ storage' = [storage EXCEPT !.people_v1 = <<people'>>]
  /\ btnScanDisabled' =
       updateButtonsAllPeople(modelsReady, scanFiles, people', scanSelection)
  /\ UNCHANGED <<scanSelection, keptVars, bucketVars, scanStatus>>

\* part_001:224-232  "Clear all"
V1ClearAll ==
  /\ people' = <<>>
  /\ scanStatus' = [kind |-> "cleared"]
  /\ results' = <<>>
  /\ preview' = clearPreview(preview)
  /\ storage' = [storage EXCEPT !.people_v1 = <<people'>>]
  /\ btnScanDisabled' =
       updateButtonsAllPeople(modelsReady, scanFiles, people', scanSelection)
  /\ UNCHANGED <<scanSelection, modelsReady, scanFiles, threshold, scans,
                 bucketVars, enroll, harnessVars>>

NextV1 ==
  \/ V1ModelsLoaded
  \/ V1ChooseFiles
  \/ V1ScanClick
  \/ \E s \in 1..Len(scans) : V1ScanProcess(s)
  \/ V1AddPerson
  \/ V1DeletePerson
  \/ V1AddSample
  \/ V1ClearAll

SpecV1 == InitV1 /\ [][NextV1]_vars

-----------------------------------------------------------------------------
(* SpecProfiles: the profile and selection controls of src/app.js alone     *)

InitProfiles ==
  /\ people \in StoredPeople
  /\ \E loaded \in SelectionMaps : scanSelection = syncSelection(people, loaded)
  /\ threshold = DEFAULT_THRESHOLD
  /\ arg = [descriptor |-> <<>>]
  /\ res = [done |-> FALSE]
  /\ AppIdle

NextProfiles ==
  \/ AddPerson
  \/ DeletePerson
  \/ ClearSamples
  \/ AddSample
  \/ ToggleSelection
  \/ SelectAllOrNone
  \/ ImportPeople
  \/ ClearAll

SpecProfiles == InitProfiles /\ [][NextProfiles]_vars

-----------------------------------------------------------------------------
(* Further properties of matchesForDescriptor (SpecMatch)                   *)

\* the entries of both lists of a result of matchesForDescriptor
EntriesOf(m) == Range(m.hits) \cup Range(m.possibles)
\* the least distance from descriptor q to a sample of the list
MinDist(q, samples) ==
  CHOOSE d \in {dist(q, samples[k]) : k \in 1..Len(samples)} :
    \A k \in 1..Len(samples) : d <= dist(q, samples[k])

\* C11: the distance of every entry of the hit and possible lists is the
\* least distance from the query descriptor to a sample of its person, in
\* whatever order the samples are stored.
C11_MinDistance ==
  res.done =>
    \A e \in EntriesOf(res.m) :
      \A k \in 1..Len(res.pool) :
        res.pool[k].id = e.personId =>
          e.dist = MinDist(arg.descriptor, res.pool[k].samples)

\* C16: a person of the active pool whose samples list is empty has best
\* distance Infinity and is in neither the hit list nor the possible list
\* (so is no face's best match), for every descriptor and threshold.
C16_NoSamplesNoMatch ==
  res.done =>
    \A k \in 1..Len(res.pool) :
      res.pool[k].samples = <<>> =>
        /\ bestOfPerson(arg.descriptor, res.pool[k]) = Infinity
        /\ ~InList(res.m.hits, res.pool[k].id)
        /\ ~InList(res.m.possibles, res.pool[k].id)

\* the pool holds a person without samples beside one who is a hit
C16_Witness ==
  /\ res.done
  /\ \E k \in 1..Len(res.pool) : res.pool[k].samples = <<>>
  /\ res.m.hits # <<>>

-----------------------------------------------------------------------------
(* SpecMalformed: matchesForDescriptor when stored samples and the query    *)
(* descriptor may differ in length                                          *)

\* descriptors of one and of two coordinates (distances 0, 3 and 5)
MixedDescriptors == {<<0>>, <<3>>, <<0, 0>>, <<3, 4>>}
MixedPersons ==
  {[id |-> id, name |-> NameOf[id], samples |-> sl] :
     id \in Ids, sl \in SeqsUpTo(MixedDescriptors, 1)}
MixedPeopleLists ==
  {pl \in SeqsUpTo(MixedPersons, Cardinality(Ids)) :
     \A i, j \in 1..Len(pl) : i # j => pl[i].id # pl[j].id}

InitMalformed ==
  /\ people \in MixedPeopleLists
  /\ scanSelection \in SelectionMaps
  /\ threshold \in {4, 12}
  /\ arg \in [descriptor : MixedDescriptors]
  /\ res = [done |-> FALSE]
  /\ AppIdle

\* app.js:592  matchesForDescriptor(desc, thr) comes back with its two
\* lists: neither it nor dist has a throw, and arithmetic on a missing
\* coordinate gives NaN
MatchStored ==
  /\ ~res.done
  /\ res' = [done |-> TRUE, outcome |-> "returned",
             pool |-> selectedPeople(people, scanSelection),
             m |-> matchesForDescriptor(people, scanSelection, arg.descriptor, threshold)]
  /\ UNCHANGED <<appVars, arg>>

NextMalformed == MatchStored

SpecMalformed == InitMalformed /\ [][NextMalformed]_vars

\* a sample of the active pool whose length is not the query's
LengthMismatch ==
  \E k \in 1..Len(res.pool) :
    \E n \in 1..Len(res.pool[k].samples) :
      Len(res.pool[k].samples[n]) # Len(arg.descriptor)

\* C12: a call of the matcher in which a sample of the active pool has a
\* length other than the query's ends with an error, not with match lists.
C12_MalformedSurfaced ==
  (res.done /\ LengthMismatch) => res.outcome = "threw"

-----------------------------------------------------------------------------
(* SpecScan: the batch scan of src/app.js with two enrolled profiles, the   *)
(* selection boxes and "Clear all"; decoding or detection may fail          *)

\* app.js:574-585  img.decode() or the detector rejects while scan s waits
\* for its current file: nothing catches it, the handler's promise rejects
\* and the activation is over
ScanThrow(s) ==
  /\ scans[s].pc = "image"
  /\ scans' = [scans EXCEPT ![s] = [scans[s] EXCEPT !.pc = "thrown"]]
  /\ UNCHANGED <<people, scanSelection, modelsReady, scanFiles, threshold,
                 bucketVars, scanStatus, results, preview, btnScanDisabled, enroll, storage, harnessVars>>

\* the batches chosen in this specification, by the names of their files
Picture(name) == CHOOSE pic \in ScanPictures : pic.name = name
ScanBatches ==
  {<<Picture("near.jpg")>>,
   <<Picture("near.jpg"), Picture("bob.jpg")>>,
   <<Picture("bob.jpg"), Picture("doubt.jpg")>>}

InitScan ==
  /\ people = <<Enrolled("a"), Enrolled("b")>>
  /\ scanSelection \in [{"a", "b"} -> BOOLEAN]
  /\ modelsReady = FALSE
  /\ scanFiles = <<>>
  /\ threshold = DEFAULT_THRESHOLD
  /\ scans = <<>>
  /\ resultsFlagged = <<>> /\ resultsPossible = <<>> /\ resultsClear = <<>>
  /\ countFlagged = 0 /\ countPossible = 0 /\ countClear = 0
  /\ scanStatus = NoStatus
  /\ results = <<>>
  /\ preview = NoPreview
  /\ enroll = NoEnroll
  /\ btnScanDisabled = TRUE
  /\ storage = Persisted(people, scanSelection)
  /\ arg = [descriptor |-> <<>>]
  /\ res = [done |-> FALSE]

NextScan ==
  \/ ModelsLoaded
  \/ ChooseFilesFrom(ScanBatches)
  \/ ScanClick
  \/ \E s \in 1..Len(scans) : ScanProcess(s)
  \/ \E s \in 1..Len(scans) : ScanResume(s)
  \/ \E s \in 1..Len(scans) : ScanThrow(s)
  \/ ToggleSelection
  \/ ClearAll

SpecScan == InitScan /\ [][NextScan]_vars

\* C13: a scan whose handler has ended has counted a result for every file
\* of its batch, also when decoding or detection failed for one of them.
C13_EveryImageReported ==
  \A s \in 1..Len(scans) :
    scans[s].pc \notin {"image", "yield"} =>
      /\ scans[s].pc = "done"
      /\ scans[s].flaggedCount + scans[s].possibleCount + scans[s].clearCount
           = Len(scans[s].files)

\* the rows of one bucket are in the order of the files of their scan
InFileOrder(bucket) ==
  \A i, j \in 1..Len(bucket) :
    (i < j /\ bucket[i].scan = bucket[j].scan) => bucket[i].file < bucket[j].file

\* C15: in each bucket the rows of one scan stand in the order of its input
\* files, and a row exists only for files the scan's loop has reached: the
\* row of file i is appended before that of any later file j.
C15_InputOrder ==
  /\ InFileOrder(resultsFlagged)
  /\ InFileOrder(resultsPossible)
  /\ InFileOrder(resultsClear)
  /\ \A row \in BucketRows :
       /\ row.file <= scans[row.scan].i
       /\ scans[row.scan].pc = "image" => row.file < scans[row.scan].i

\* a scan of near.jpg then bob.jpg with both people ticked has finished:
\* the flagged bucket holds their two rows, in that order
C15_Witness ==
  /\ Len(resultsFlagged) = 2
  /\ resultsFlagged[1].scan = resultsFlagged[2].scan
  /\ resultsFlagged[1].file = 1 /\ resultsFlagged[1].name = "near.jpg"
  /\ resultsFlagged[2].file = 2 /\ resultsFlagged[2].name = "bob.jpg"
  /\ scans[resultsFlagged[1].scan].pc = "done"

-----------------------------------------------------------------------------
(* The closest-match variant of the scan (src/unnamed/part_001, from line   *)
(* 494): plausibility filter, one best match per face, MATCH or CLEAR       *)

\* part_001:641-645  distanceToConfidence(d, thr), with max = thr + 0.25
closestConfidence(d, thr) ==
  LET max == thr + MARGIN
      num == IF d >= max THEN 0 ELSE 100 * (max - d)
  IN (2 * num + max) \div (2 * max)

\* the loop over the pool with the test bestDist <= best.dist, which lets
\* the last of several equidistant persons win
RECURSIVE closestLoopLastWins(_, _, _, _, _)
closestLoopLastWins(pool, k, descriptor, thr, best) ==
  IF k > Len(pool) THEN best
  ELSE IF pool[k].samples = <<>>
    THEN closestLoopLastWins(pool, k + 1, descriptor, thr, best)
  ELSE LET bestDist == sampleLoop(descriptor, pool[k].samples, 1, Infinity)
       IN IF ~IsFinite(bestDist)
            THEN closestLoopLastWins(pool, k + 1, descriptor, thr, best)
          ELSE IF best = <<>> \/ Le(bestDist, best[1].dist)
            THEN closestLoopLastWins(pool, k + 1, descriptor, thr,
                   <<[personId |-> pool[k].id, name |-> pool[k].name,
                      dist |-> bestDist,
                      confidence |-> closestConfidence(bestDist, thr)]>>)
          ELSE closestLoopLastWins(pool, k + 1, descriptor, thr, best)

\* part_001:713-735  the loop over the pool, from person k on; best is the
\* closest person so far, as a list of at most one entry
RECURSIVE closestLoop(_, _, _, _, _)
closestLoop(pool, k, descriptor, thr, best) ==
  IF k > Len(pool) THEN best
  ELSE IF pool[k].samples = <<>> THEN closestLoop(pool, k + 1, descriptor, thr, best)
  ELSE LET bestDist == sampleLoop(descriptor, pool[k].samples, 1, Infinity)
       IN IF ~IsFinite(bestDist) THEN closestLoop(pool, k + 1, descriptor, thr, best)
          ELSE IF best = <<>> \/ Lt(bestDist, best[1].dist)
            THEN closestLoop(pool, k + 1, descriptor, thr,
                   <<[personId |-> pool[k].id, name |-> pool[k].name,
                      dist |-> bestDist,
                      confidence |-> closestConfidence(bestDist, thr)]>>)
          ELSE closestLoop(pool, k + 1, descriptor, thr, best)

\* part_001:708-738  bestMatchForDescriptor(descriptor, thr): the closest
\* person if within the threshold, else null (the empty list)
bestMatchForDescriptor(ppl, sel, descriptor, thr) ==
  LET best == closestLoop(selectedPeople(ppl, sel), 1, descriptor, thr, <<>>)
  IN IF best = <<>> \/ ~Le(best[1].dist, thr) THEN <<>> ELSE best

\* part_001:740-743  dedupeNames: the names in order of first occurrence
RECURSIVE dedupeNamesFrom(_, _, _)
dedupeNamesFrom(bestMatches, k, names) ==
  IF k > Len(bestMatches) THEN names
  ELSE dedupeNamesFrom(bestMatches, k + 1,
         IF \E n \in 1..Len(names) : names[n] = bestMatches[k].name
           THEN names ELSE Append(names, bestMatches[k].name))
dedupeNames(bestMatches) == dedupeNamesFrom(bestMatches, 1, <<>>)

\* part_001:1110-1117  the face results of the plausible detections, from
\* detection k on
RECURSIVE plausibleLoop(_, _, _, _, _, _, _, _)
plausibleLoop(ppl, sel, trimmed, k, scale, img, thr, faceResults) ==
  IF k > Len(trimmed) THEN faceResults
  ELSE IF ~isPlausibleFace(trimmed[k], scale, img)
    THEN plausibleLoop(ppl, sel, trimmed, k + 1, scale, img, thr, faceResults)
  ELSE plausibleLoop(ppl, sel, trimmed, k + 1, scale, img, thr,
         Append(faceResults,
           [det |-> trimmed[k],
            best |-> bestMatchForDescriptor(ppl, sel, trimmed[k].descriptor, thr)]))

\* part_001:1099-1137  one image of the scan loop, from the detector's
\* output to the status, the names and the face count written in the row
closestScanImage(ppl, sel, detections, img, thr) ==
  LET scale == detectionScale(img, SCAN_MIN_SIDE)
      trimmed == SubSeq(detections, 1, Min(Len(detections), MAX_FACES_PER_IMAGE))
      faceResults == plausibleLoop(ppl, sel, trimmed, 1, scale, img, thr, <<>>)
      matchedFaces == SelectSeq(faceResults, LAMBDA fr : fr.best # <<>>)
      bests == [k \in 1..Len(matchedFaces) |-> matchedFaces[k].best[1]]
  IN [trimmed |-> trimmed, faceResults |-> faceResults,
      matchedFaces |-> matchedFaces,
      status |-> IF matchedFaces # <<>> THEN "flagged" ELSE "clear",
      names |-> IF matchedFaces # <<>> THEN dedupeNames(bests) ELSE <<>>,
      faces |-> Len(trimmed)]

-----------------------------------------------------------------------------
(* SpecClosest: one iteration of the scan loop of the closest-match variant *)

\* detections of a 1000 x 2000 picture (detection scale 1): two plausible
\* faces, one of score 0.10, one of 39 x 39 pixels
ClosestDetections ==
  {[score |-> 90, width |-> 100, height |-> 100, descriptor |-> <<0>>],
   [score |-> 90, width |-> 100, height |-> 100, descriptor |-> <<14>>],
   [score |-> 10, width |-> 100, height |-> 100, descriptor |-> <<0>>],
   [score |-> 90, width |-> 39, height |-> 39, descriptor |-> <<3>>]}

InitClosest ==
  /\ people \in ImagePeopleLists
  /\ scanSelection \in [ImageIds -> BOOLEAN]
  /\ threshold \in {4, 12}
  /\ arg \in [detections : SeqsUpTo(ClosestDetections, MaxDetections),
              img : {[width |-> 1000, height |-> 2000]}]
  /\ res = [done |-> FALSE]
  /\ AppIdle

\* part_001:1099-1137  the body of the scan loop for one image
ClosestScanOne ==
  /\ ~res.done
  /\ res' = [done |-> TRUE,
             r |-> closestScanImage(people, scanSelection, arg.detections,
                                    arg.img, threshold)]
  /\ UNCHANGED <<appVars, arg>>

NextClosest == ClosestScanOne

SpecClosest == InitClosest /\ [][NextClosest]_vars

\* C14: an image none of whose detections is accepted (there are none, or
\* the plausibility filter rejects them all) has status clear, no matched
\* names and a face count of 0 in its row.
C14_ZeroObservations ==
  (res.done /\ res.r.faceResults = <<>>) =>
    /\ res.r.status = "clear"
    /\ res.r.names = <<>>
    /\ res.r.faces = 0

-----------------------------------------------------------------------------
(* SpecConfidence: distanceToConfidence of src/app.js and of the two        *)
(* variants under src/unnamed, on the same distance and threshold           *)

\* part_000:66   BORDERLINE_BAND = 0.06, in hundredths
P0_BORDERLINE_BAND == 6
\* part_000:130  thr + band + 0.20, in hundredths
P0_MARGIN == 20

\* part_000:127-133  distanceToConfidence(d, thr), d and thr in hundredths
part000Confidence(d, thr) ==
  LET max == thr + P0_BORDERLINE_BAND + P0_MARGIN
      num == IF d >= max THEN 0 ELSE 100 * (max - d)
  IN (2 * num + max) \div (2 * max)

\* distances 0..MaxDist, in steps of 0.05
MaxDist == 40
\* thresholds 0.05 .. 1.00, in steps of 0.05
ConfidenceThresholds == 1..20

InitConfidence ==
  /\ people = <<>>
  /\ scanSelection = <<>>
  /\ threshold \in ConfidenceThresholds
  /\ arg \in [d : 0..MaxDist]
  /\ res = [done |-> FALSE]
  /\ AppIdle

\* app.js:201, part_001:731, part_000:181  distanceToConfidence(best, thr)
Confidence ==
  /\ ~res.done
  /\ res' = [done |-> TRUE,
             app |-> distanceToConfidence(arg.d, threshold),
             closest |-> closestConfidence(arg.d, threshold),
             part000 |-> part000Confidence(5 * arg.d, 5 * threshold)]
  /\ UNCHANGED <<appVars, arg>>

NextConfidence == Confidence

SpecConfidence == InitConfidence /\ [][NextConfidence]_vars

\* round(100 * clamp(1 - d / max, 0, 1)), halves rounded up: the integer c
\* with c - 1/2 <= 100 * (1 - d / max) < c + 1/2, or 0 from d = max on
RoundedPercent(d, max) ==
  IF d >= max THEN 0
  ELSE CHOOSE c \in 0..100 :
         /\ 2 * max * c <= 200 * (max - d) + max
         /\ 200 * (max - d) + max < 2 * max * (c + 1)

\* the three functions give, at distance d2, no more than at arg.d
NoHigherAt(d2) ==
  /\ distanceToConfidence(d2, threshold) <= res.app
  /\ closestConfidence(d2, threshold) <= res.closest
  /\ part000Confidence(5 * d2, 5 * threshold) <= res.part000

\* C17 as stated: in every variant the confidence is
\* round(100 * clamp(1 - d / (thr + band + MARGIN), 0, 1)) with MARGIN = 0.25
\* (band 0.10 in app.js, 0 in the closest-match variant, 0.06 in part_000).
C17_MarginQuarter ==
  res.done =>
    /\ res.app = RoundedPercent(arg.d, threshold + BORDERLINE_BAND + MARGIN)
    /\ res.closest = RoundedPercent(arg.d, threshold + MARGIN)
    /\ res.part000 =
         RoundedPercent(5 * arg.d, 5 * threshold + P0_BORDERLINE_BAND + 5 * MARGIN)

\* C17, amended: the confidence is
\* round(100 * clamp(1 - d / (thr + band + MARGIN), 0, 1)) with MARGIN a
\* constant of the variant, 0.25 in app.js and in the closest-match variant
\* and 0.20 in part_000; it is an integer in 0..100, non-increasing in d,
\* and above 0 for every distance within thr + band (FLAGGED or POSSIBLE).
C17_Confidence ==
  res.done =>
    /\ res.app = RoundedPercent(arg.d, threshold + BORDERLINE_BAND + MARGIN)
    /\ res.closest = RoundedPercent(arg.d, threshold + MARGIN)
    /\ res.part000 =
         RoundedPercent(5 * arg.d, 5 * threshold + P0_BORDERLINE_BAND + P0_MARGIN)
    /\ {res.app, res.closest, res.part000} \subseteq 0..100
    /\ \A d2 \in 0..MaxDist : arg.d <= d2 => NoHigherAt(d2)
    /\ arg.d <= threshold + BORDERLINE_BAND => res.app > 0
    /\ arg.d <= threshold => res.closest > 0
    /\ 5 * arg.d <= 5 * threshold + P0_BORDERLINE_BAND => res.part000 > 0

\* threshold 0.60, distance 0.70 (the far end of POSSIBLE in app.js):
\* 26 % in app.js, 18 % with max = thr + 0.25, 19 % in part_000
C17_Witness ==
  /\ res.done
  /\ threshold = 12 /\ arg.d = 14
  /\ res.app = 26 /\ res.closest = 18 /\ res.part000 = 19

-----------------------------------------------------------------------------
(* SpecMonotone: the same image scanned under two thresholds                *)

\* the two values of the slider (0.10, 0.20, 0.60)
MonotoneThresholds == {2, 4, 12}

InitMonotone ==
  /\ people \in ImagePeopleLists
  /\ scanSelection \in [ImageIds -> BOOLEAN]
  /\ threshold \in MonotoneThresholds
  /\ arg \in [detections : SeqsUpTo(ImageDetections, MaxDetections),
              thr2 : MonotoneThresholds]
  /\ threshold <= arg.thr2
  /\ res = [done |-> FALSE]
  /\ AppIdle

\* app.js:587-616  the body of the scan loop for the same detections, with
\* thr = threshold and with thr = arg.thr2
ScanTwice ==
  /\ ~res.done
  /\ res' = [done |-> TRUE,
             r1 |-> scanImage(people, scanSelection, arg.detections, threshold),
             r2 |-> scanImage(people, scanSelection, arg.detections, arg.thr2)]
  /\ UNCHANGED <<appVars, arg>>

NextMonotone == ScanTwice

SpecMonotone == InitMonotone /\ [][NextMonotone]_vars

\* CLEAR < POSSIBLE < FLAGGED
Severity(status) == IF status = "flagged" THEN 2 ELSE IF status = "possible" THEN 1 ELSE 0
\* the tier of one face result
FaceTier(fr) ==
  IF fr.hits # <<>> THEN "flagged" ELSE IF fr.possibles # <<>> THEN "possible" ELSE "clear"

\* C18: with the pool and the band fixed and thresholds t1 <= t2, every face
\* and the image are at least as severe under t2 as under t1.
C18_Monotone ==
  res.done =>
    /\ Severity(res.r2.status) >= Severity(res.r1.status)
    /\ \A k \in 1..Len(res.r1.faceResults) :
         Severity(FaceTier(res.r2.faceResults[k]))
           >= Severity(FaceTier(res.r1.faceResults[k]))

\* an image that is clear at 0.10 and flagged at 0.60, one of whose faces
\* goes from clear to possible
C18_Witness ==
  /\ res.done
  /\ threshold = 2 /\ arg.thr2 = 12
  /\ res.r1.status = "clear" /\ res.r2.status = "flagged"
  /\ \E k \in 1..Len(res.r2.faceResults) :
       /\ FaceTier(res.r1.faceResults[k]) = "clear"
       /\ FaceTier(res.r2.faceResults[k]) = "possible"

-----------------------------------------------------------------------------
(* SpecV1Image: one iteration of the scan loop of the first version         *)
(* (src/unnamed/part_001:349-363) on every detector output of the model     *)

\* the people of the first version: one or two profiles with a sample each
V1ImagePeople ==
  {<<>>, <<Unenrolled("a")>>, <<Enrolled("a")>>, <<Enrolled("a"), Enrolled("b")>>}

InitV1Image ==
  /\ people \in V1ImagePeople
  /\ scanSelection = <<>>
  /\ threshold \in {4, 12}
  /\ arg \in [detections : SeqsUpTo(ImageDetections, MaxDetections)]
  /\ res = [done |-> FALSE]
  /\ AppIdle

\* part_001:357-363  the matches of one image's detections
V1ScanOne ==
  /\ ~res.done
  /\ res' = [done |-> TRUE, r |-> v1ScanImage(people, arg.detections, threshold)]
  /\ UNCHANGED <<appVars, arg>>

NextV1Image == V1ScanOne

SpecV1Image == InitV1Image /\ [][NextV1Image]_vars

\* C19: the detections given to the matcher are the first
\* MAX_FACES_PER_IMAGE entries of the detector's output, in its order, and
\* no others; there is one match result for each of them.
C19_FaceCap ==
  res.done =>
    /\ res.r.detections =
         SubSeq(arg.detections, 1, Min(Len(arg.detections), MAX_FACES_PER_IMAGE))
    /\ Len(res.r.matches) <= MAX_FACES_PER_IMAGE

-----------------------------------------------------------------------------
(* SpecImport: the people handlers of src/app.js with import files that     *)
(* the change handler of importFile accepts: any JSON text whose "people"   *)
(* is an array (app.js:759-761)                                             *)

\* a file put together from two exports, in which one id occurs twice
MergedExport ==
  <<Enrolled("a"), [id |-> "a", name |-> "Bob", samples |-> <<>>]>>

ImportFiles == ImportedPeople \cup {MergedExport}

InitImport == InitProfiles

NextImport ==
  \/ AddPerson
  \/ DeletePerson
  \/ ClearSamples
  \/ AddSample
  \/ ToggleSelection
  \/ SelectAllOrNone
  \/ ImportPeopleFrom(ImportFiles)
  \/ ClearAll

SpecImport == InitImport /\ [][NextImport]_vars

\* C20: after any sequence of add person, delete person, clear all and
\* import, no two profiles of the people list have the same id.  (No
\* handler assigns to the id of a profile, so an id cannot change while
\* its profile stays in the list; the part that fails is uniqueness.)
C20_UniqueIds ==
  \A i, j \in 1..Len(people) : i # j => people[i].id # people[j].id

-----------------------------------------------------------------------------
(* Further properties of one image of the scan loop (SpecImage)             *)

\* the candidates of a face: its hits, or else its possibles (app.js:593)
CandidatesOf(fr) == IF fr.hits # <<>> THEN fr.hits ELSE fr.possibles

\* person id is a closest candidate of face fr
ClosestOfFace(fr, id) ==
  LET cs == CandidatesOf(fr)
  IN \E i \in 1..Len(cs) : cs[i].personId = id /\ cs[i].dist = cs[1].dist

\* C21: every entry of the matched-identity lists of an image (flagged and
\* possible) is the closest candidate of at least one processed face of
\* that image; a face adds nothing for an identity that is not its closest.
C21_OnePerFace ==
  res.done =>
    \A e \in Range(res.r.uniqHits) \cup Range(res.r.uniqPoss) :
      \E k \in 1..Len(res.r.faceResults) :
        ClosestOfFace(res.r.faceResults[k], e.personId)

-----------------------------------------------------------------------------
(* SpecTie: the three-tier matcher of src/app.js and the closest-match      *)
(* matcher of src/unnamed/part_001 on the same pool, descriptor and         *)
(* threshold, with pools in which several persons are equally far           *)

TieSamples == {<<0>>, <<4>>}
TieQueries == {<<x>> : x \in 0..6}
TieThresholds == {2, 4, 12}
\* the samples of a profile of these pools, at most
MaxTieSamples == 1
TiePersons == {[id |-> id, name |-> NameOf[id], samples |-> sl] :
                 id \in ImageIds, sl \in SeqsUpTo(TieSamples, MaxTieSamples)}
\* the three profiles in every order of the list
TiePeopleLists ==
  {pl \in [1..3 -> TiePersons] :
     \A i, j \in 1..3 : i # j => pl[i].id # pl[j].id}

InitTie ==
  /\ people \in TiePeopleLists
  /\ scanSelection \in [ImageIds -> BOOLEAN]
  /\ threshold \in TieThresholds
  /\ arg \in [descriptor : TieQueries]
  /\ res = [done |-> FALSE]
  /\ AppIdle

\* app.js:592-593 and part_001:708-738 on one descriptor
MatchBoth ==
  /\ ~res.done
  /\ res' = [done |-> TRUE,
             pool |-> selectedPeople(people, scanSelection),
             fr |-> faceResult(people, scanSelection,
                               [descriptor |-> arg.descriptor], threshold),
             closest |-> bestMatchForDescriptor(people, scanSelection,
                                                arg.descriptor, threshold)]
  /\ UNCHANGED <<appVars, arg>>

NextTie == MatchBoth

SpecTie == InitTie /\ [][NextTie]_vars

\* the distances of the pool members as the matchers compute them
PoolDists ==
  [k \in 1..Len(res.pool) |-> bestOfPerson(arg.descriptor, res.pool[k])]

\* the pool members at the minimum distance
AtMinimum ==
  LET d == PoolDists
  IN {k \in DOMAIN d :
        /\ IsFinite(d[k])
        /\ \A j \in DOMAIN d : IsFinite(d[j]) => d[k] <= d[j]}

\* the id of the first of them in people-list order
FirstAtMinimum ==
  LET ks == AtMinimum
  IN res.pool[CHOOSE k \in ks : \A j \in ks : k <= j].id

\* C22: when a face has a best match, it is the first person in
\* people-list order among the active persons at the minimum distance, in
\* the three-tier matcher (hits[0] || possibles[0]) and in the
\* closest-match matcher alike, however many persons are tied and in
\* whatever order the pool is.
C22_FirstOfTied ==
  res.done =>
    /\ res.fr.best # <<>> => res.fr.best[1].personId = FirstAtMinimum
    /\ res.closest # <<>> => res.closest[1].personId = FirstAtMinimum

\* three persons tied within the threshold, Cat first in the list: both
\* matchers answer Cat
C22_Witness ==
  /\ res.done
  /\ Cardinality(AtMinimum) = 3
  /\ people[1].id = "c"
  /\ res.fr.best # <<>> /\ res.fr.best[1].personId = "c"
  /\ res.closest # <<>> /\ res.closest[1].personId = "c"

\* C29: on the same pool, descriptor and threshold, bestMatchForDescriptor
\* returns null exactly when the hit list of matchesForDescriptor is
\* empty, and otherwise the personId and the distance of hits[0].
C29_BinaryAgrees ==
  res.done =>
    /\ res.closest = <<>> <=> res.fr.hits = <<>>
    /\ res.closest # <<>> =>
         /\ res.closest[1].personId = res.fr.hits[1].personId
         /\ res.closest[1].dist = res.fr.hits[1].dist

\* two persons equally far within the threshold and a third one farther but
\* within it too: three hits, and the closest-match answer is the first
C29_Witness ==
  /\ res.done
  /\ Len(res.fr.hits) = 3
  /\ Cardinality(AtMinimum) = 2
  /\ res.closest # <<>>
  /\ res.closest[1].personId = res.fr.hits[1].personId

-----------------------------------------------------------------------------
(* SpecPreview: scans of src/app.js over batches whose images come out      *)
(* flagged, possible or clear according to the selection of the moment      *)

\* far.jpg: a face within the borderline band of Ann's sample at the
\* default threshold, and far from Bob's
FarPicture ==
  [name |-> "far.jpg",
   faces |-> <<[score |-> 90, width |-> 100, height |-> 100, descriptor |-> <<13>>]>>]

PreviewBatches ==
  {<<FarPicture, Picture("near.jpg")>>,
   <<Picture("near.jpg"), FarPicture>>,
   <<Picture("bob.jpg"), FarPicture, Picture("near.jpg")>>}

InitPreview == InitScan

\* a click on "Scan" while no scan has been started: the session has a
\* single scan
FirstScanClick == scans = <<>> /\ ScanClick

NextPreview ==
  \/ ModelsLoaded
  \/ ChooseFilesFrom(PreviewBatches)
  \/ FirstScanClick
  \/ \E s \in 1..Len(scans) : ScanProcess(s)
  \/ \E s \in 1..Len(scans) : ScanResume(s)
  \/ ToggleSelection
  \/ ClearAll

SpecPreview == InitPreview /\ [][NextPreview]_vars

\* the first file with status st among the statuses of a scan
FirstWith(statuses, st) ==
  CHOOSE k \in 1..Len(statuses) :
    statuses[k] = st /\ \A j \in 1..(k - 1) : statuses[j] # st

\* the file the claim names: the first flagged, else the first possible,
\* else the first clear
PreviewedFile(statuses) ==
  IF \E k \in 1..Len(statuses) : statuses[k] = "flagged"
    THEN FirstWith(statuses, "flagged")
  ELSE IF \E k \in 1..Len(statuses) : statuses[k] = "possible"
    THEN FirstWith(statuses, "possible")
  ELSE FirstWith(statuses, "clear")

\* C23: when a single scan has finished, the image its handler drew last
\* to the preview is the first flagged image of the scan in input order if
\* one was flagged, else the first possible one if one was possible, else
\* the first clear one.
C23_AutoPreview ==
  (Len(scans) = 1 /\ scans[1].pc = "done") =>
    /\ preview.scan = 1
    /\ preview.file = PreviewedFile(scans[1].statuses)

\* a scan of three files has finished; the first was clear and drawn, the
\* second possible and drawn over it, the third flagged and drawn last
C23_Witness ==
  /\ Len(scans) = 1 /\ scans[1].pc = "done"
  /\ scans[1].statuses = <<"clear", "possible", "flagged">>
  /\ preview = drawPreview(1, 3)

-----------------------------------------------------------------------------
(* SpecReload: the profile handlers of src/app.js, Clear All and a reload   *)
(* of the page, from every storage content of the model, those with the     *)
(* legacy key dnu_people_v1 included                                        *)

\* the storage found at start-up
RawStorages ==
  [people_v2 : {<<>>} \cup {<<pl>> : pl \in StoredPeople},
   people_v1 : {<<>>, <<(<<Enrolled("b")>>)>>},
   selection_v2 : {<<>>} \cup {<<m>> : m \in SelectionMaps}]

\* app.js:57-58, 788  people and selection as the script sets them up from
\* storage st, and the storage after the saveSelection of syncSelection
BootPeople(st) == loadPeople(st)
BootSelection(st) == syncSelection(loadPeople(st), loadSelection(st))
BootStorage(st) == saveSelection(st, BootSelection(st))

InitReload ==
  /\ \E st \in RawStorages :
       /\ people = BootPeople(st)
       /\ scanSelection = BootSelection(st)
       /\ storage = BootStorage(st)
  /\ modelsReady = FALSE
  /\ scanFiles = <<>>
  /\ threshold = DEFAULT_THRESHOLD
  /\ scans = <<>>
  /\ resultsFlagged = <<>> /\ resultsPossible = <<>> /\ resultsClear = <<>>
  /\ countFlagged = 0 /\ countPossible = 0 /\ countClear = 0
  /\ scanStatus = NoStatus
  /\ results = <<>>
  /\ preview = NoPreview
  /\ enroll = NoEnroll
  /\ btnScanDisabled = TRUE
  /\ arg = [descriptor |-> <<>>]
  /\ res = [done |-> FALSE]

\* the page is reloaded: the script runs again on the storage as it is
Reload ==
  /\ people' = BootPeople(storage)
  /\ scanSelection' = BootSelection(storage)
  /\ storage' = BootStorage(storage)
  /\ modelsReady' = FALSE
  /\ btnScanDisabled' = TRUE
  /\ scanFiles' = <<>>
  /\ threshold' = DEFAULT_THRESHOLD
  /\ scans' = <<>>
  /\ resultsFlagged' = <<>> /\ resultsPossible' = <<>> /\ resultsClear' = <<>>
  /\ countFlagged' = 0 /\ countPossible' = 0 /\ countClear' = 0
  /\ scanStatus' = NoStatus
  /\ results' = <<>>
  /\ preview' = NoPreview
  /\ enroll' = NoEnroll
  /\ UNCHANGED harnessVars

NextReload ==
  \/ AddPerson
  \/ DeletePerson
  \/ AddSample
  \/ ToggleSelection
  \/ ImportPeople
  \/ ClearAll
  \/ Reload

SpecReload == InitReload /\ [][NextReload]_vars

\* Clear All was the last handler to touch the storage
JustCleared ==
  /\ scanStatus.kind = "cleared"
  /\ storage.people_v2 = <<>> /\ storage.selection_v2 = <<>>

\* C27: a reload that follows Clear All starts with an empty people list
\* and an empty selection map, whatever the storage held before, the legacy
\* key dnu_people_v1 included.
C27_ClearedAfterReload ==
  [][(JustCleared /\ scanStatus' = NoStatus) =>
       (people' = <<>> /\ scanSelection' = <<>>)]_vars

-----------------------------------------------------------------------------
(* SpecButtons: every handler of src/app.js that runs updateButtons         *)

InitButtons == Init

NextButtons ==
  \/ ModelsLoaded
  \/ ChooseFilesFrom(ScanBatches \cup {<<>>})
  \/ AddPerson
  \/ DeletePerson
  \/ ClearSamples
  \/ AddSample
  \/ ToggleSelection
  \/ SelectAllOrNone
  \/ ImportPeople
  \/ ClearAll

SpecButtons == InitButtons /\ [][NextButtons]_vars

\* the profiles of the list that are active
ActivePool == {k \in 1..Len(people) : Active(people[k])}

\* C24: between handlers, the Scan button is enabled exactly when the
\* models are ready, at least one file is chosen, and the active pool is
\* not empty and has at least one sample in total.
C24_ScanEnabled ==
  ~btnScanDisabled <=>
    /\ modelsReady
    /\ Len(scanFiles) >= 1
    /\ ActivePool # {}
    /\ \E k \in ActivePool : Len(people[k].samples) >= 1

\* models ready, files chosen, Ann enrolled but deselected and Bob selected
\* without samples: the button is disabled
C24_Witness ==
  /\ modelsReady /\ scanFiles # <<>>
  /\ Len(people) = 2
  /\ people[1].samples # <<>> /\ ~Active(people[1])
  /\ people[2].samples = <<>> /\ Active(people[2])
  /\ btnScanDisabled

-----------------------------------------------------------------------------
(* SpecOverlap: "Scan" clicked again while a scan is between two awaits     *)

\* the clicks on "Scan" of a behaviour, at most
MaxOverlap == 2

NextOverlap ==
  \/ ModelsLoaded
  \/ ChooseFilesFrom(ScanBatches)
  \/ ScanClickUpTo(MaxOverlap)
  \/ \E s \in 1..Len(scans) : ScanProcess(s)
  \/ \E s \in 1..Len(scans) : ScanResume(s)

SpecOverlap == InitScan /\ [][NextOverlap]_vars

\* the rows of the buckets that belong to file i of scan s
RowsOf(s, i) ==
  LET all == resultsFlagged \o resultsPossible \o resultsClear
  IN {k \in 1..Len(all) : all[k].scan = s /\ all[k].file = i}

\* C25: each counter shown equals the number of rows of its bucket; and
\* once every scan has finished, each file of the latest scan has exactly
\* one row -- also when "Scan" is clicked while an earlier scan is still
\* waiting for a detection.
C25_CountersMatchRows ==
  /\ countFlagged = Len(resultsFlagged)
  /\ countPossible = Len(resultsPossible)
  /\ countClear = Len(resultsClear)
  /\ (scans # <<>> /\ \A s \in 1..Len(scans) : scans[s].pc = "done") =>
       \A i \in 1..Len(scans[Len(scans)].files) :
         Cardinality(RowsOf(Len(scans), i)) = 1

-----------------------------------------------------------------------------
(* SpecEnroll: enrolment photos, the tiles of the crops panel and their     *)
(* "Add sample" buttons, with the handlers that take profiles out of the    *)
(* people list in between                                                   *)

\* the descriptor of the face found in an enrolment photo
EnrollDescriptor == <<5>>

\* app.js:451-538  handleEnrollFiles for the person chosen in personSelect,
\* on a photo with one face: the crops panel is emptied and gets one tile
\* that holds the profile object found at line 456 (photos are taken for
\* profiles with at most MaxEnrolled samples)
EnrollDetect ==
  /\ IF ~modelsReady
       THEN enroll' = [enroll EXCEPT !.status = [kind |-> "modelsNotReady"]]
     ELSE \E k \in 1..Len(people) :
       /\ Len(people[k].samples) <= MaxEnrolled
       /\ enroll' = [crops |-> <<[person |-> people[k].id,
                                  name |-> people[k].name,
                                  descriptor |-> EnrollDescriptor,
                                  detached |-> FALSE, added |-> FALSE]>>,
                     status |-> [kind |-> "found", name |-> people[k].name]]
  /\ UNCHANGED <<people, scanSelection, modelsReady, scanFiles, threshold, scans,
                 bucketVars, scanStatus, results, preview, btnScanDisabled,
                 storage, harnessVars>>

\* the people list after a push of descriptor onto the samples of the
\* profile object of tile: nothing changes in the list when the object is
\* not an element of it
pushSample(ppl, tile) ==
  IF tile.detached THEN ppl
  ELSE [k \in DOMAIN ppl |->
          IF ppl[k].id = tile.person
            THEN [ppl[k] EXCEPT !.samples = Append(@, tile.descriptor)]
          ELSE ppl[k]]

\* app.js:518-525  btn.onclick of tile t: person.samples.push(descriptor),
\* savePeople, the button disabled, "Added sample to <name>"
AddSampleClick ==
  /\ \E t \in 1..Len(enroll.crops) :
       LET tile == enroll.crops[t]
           ppl == pushSample(people, tile)
       IN /\ ~tile.added
          /\ people' = ppl
          /\ scanSelection' = syncSelection(ppl, scanSelection)
          /\ enroll' = [crops |-> [enroll.crops EXCEPT ![t].added = TRUE],
                        status |-> [kind |-> "added", name |-> tile.name]]
  /\ storage' = savePeople(storage, people', scanSelection')
  /\ btnScanDisabled' = updateButtons(modelsReady, scanFiles, people', scanSelection')
  /\ UNCHANGED <<scanVars, bucketVars, scanStatus>>

InitEnroll == Init

NextEnroll ==
  \/ ModelsLoaded
  \/ EnrollDetect
  \/ AddSampleClick
  \/ AddPerson
  \/ DeletePerson
  \/ ImportPeople
  \/ ClearAll

SpecEnroll == InitEnroll /\ [][NextEnroll]_vars

\* a step in which the button of tile t reports "Added sample to <name>"
Reports(t) ==
  /\ Len(enroll.crops) = Len(enroll'.crops)
  /\ t \in 1..Len(enroll.crops)
  /\ ~enroll.crops[t].added /\ enroll'.crops[t].added
  /\ enroll'.status.kind = "added"

\* C26: whenever a click on "Add sample" reports "Added sample to <name>",
\* the descriptor of the tile is then a sample of a profile of the people
\* list, also when the person was deleted or the list replaced by an import
\* after the faces were detected.
C26_AddedIsStored ==
  [][\A t \in 1..Len(enroll.crops) :
       Reports(t) =>
         \E k \in 1..Len(people') :
           \E i \in 1..Len(people'[k].samples) :
             people'[k].samples[i] = enroll.crops[t].descriptor]_vars

-----------------------------------------------------------------------------
(* Selection flags across changes of the people list (SpecProfiles)         *)

-----------------------------------------------------------------------------
(* SpecNames: the scan loop of the closest-match variant on people lists    *)
(* in which two profiles may have the same name                             *)

\* two profiles with one sample each; the second is called Ann like the
\* first, or Bob
NamesakeLists ==
  {<<[id |-> "a", name |-> "Ann", samples |-> <<sa>>],
     [id |-> "b", name |-> nb, samples |-> <<sb>>]>> :
     sa \in {<<0>>, <<14>>}, sb \in {<<0>>, <<14>>}, nb \in {"Ann", "Bob"}}

InitNames ==
  /\ people \in NamesakeLists
  /\ scanSelection \in [{"a", "b"} -> BOOLEAN]
  /\ threshold \in {4, 12}
  /\ arg \in [detections : SeqsUpTo(ClosestDetections, MaxDetections),
              img : {[width |-> 1000, height |-> 2000]}]
  /\ res = [done |-> FALSE]
  /\ AppIdle

SpecNames == InitNames /\ [][NextClosest]_vars

\* the ids of the identities matched by some face of the image
MatchedIds ==
  {res.r.matchedFaces[k].best[1].personId : k \in 1..Len(res.r.matchedFaces)}

\* C30: the matched list of an image has exactly one entry for each
\* distinct identity id matched by some face of the image, so two
\* identities of the same name that both match give two entries.
C30_OnePerIdentity ==
  res.done => Len(res.r.names) = Cardinality(MatchedIds)

=============================================================================
